---- MODULE Spec2Model ----
(***************************************************************************)
(* Recipe persistence and versioning engine of the chef voice agent        *)
(* (src/backend/database.py).                                              *)
(*                                                                         *)
(* The relational store is a set of rows per table.  Every repository call *)
(* runs on its own pooled connection: a session holds the rows it has      *)
(* written and not yet committed in txn[s]; other sessions only see        *)
(* committed rows (PostgreSQL READ COMMITTED).  A call is a sequence of     *)
(* steps, one per SQL statement group, so calls of different sessions      *)
(* interleave between statements.                                          *)
(*                                                                         *)
(* Text is a sequence of one-character strings, so that LOWER(), strip(),  *)
(* ILIKE '%q%', split() and the " 2", " 3" suffixes are computed.          *)
(* Version numbers are Python floats with one decimal digit; they are kept *)
(* as an integer number of tenths (1.0 is 10, 1.9 is 19, 2.0 is 20).       *)
(* SQL NULL / Python None is 0 for numbers, <<>> for names and "" for      *)
(* free text (update_recipe tests its optional arguments by truthiness,    *)
(* which treats None, 0 and "" alike).                                     *)
(***************************************************************************)
EXTENDS Integers, Sequences, FiniteSets, TLC

VARIABLES
    recipes,             \* plate_recipes and batch_recipes rows (committed)
    ingredients,         \* ingredients catalog rows (committed)
    recipe_ingredients,  \* plate_ingredients / batch_ingredients links (committed)
    versions,            \* plate/batch_recipe_versions rows (committed)
    version_ingredients, \* plate/batch_version_ingredients links (committed)
    txn,                 \* per session: rows written and not yet committed
    pc,                  \* per session: position inside the running call
    args,                \* per session: arguments and locals of the running call
    clock,               \* number of saves begun; NOW() of a save's transaction
    nextIng,             \* next free ingredient id
    ret,                 \* the call that returned on the last step, with the value it
                         \* returned to its caller; NoReturn if none returned
    vprev,               \* version calculator: current_version of the last call
    vcur,                \* version calculator: value returned by the last call
    vtype,               \* version calculator: change_type of the last call
    sheets,              \* spreadsheet mirror: the call the last step made to it, NoSync if none
    detect,              \* change detector: the arguments of a call and, once it ran, its result
    norm,                \* unit normalizer: the argument of a call and, once it ran, its result
    pool,                \* connection pool: connections checked out, and the number of
                         \* searches at each position of smart_search_recipes
    conv                 \* orchestrator: self.messages and the position of process_message

storeVars == <<recipes, ingredients, recipe_ingredients, versions, version_ingredients>>
sessVars  == <<txn, pc, args, clock, nextIng, ret, sheets>>
calcVars  == <<vprev, vcur, vtype, detect, norm, pool, conv>>
vars      == <<recipes, ingredients, recipe_ingredients, versions, version_ingredients,
               txn, pc, args, clock, nextIng, ret, vprev, vcur, vtype, sheets,
               detect, norm, pool, conv>>

(***************************************************************************)
(* Bounds                                                                  *)
(***************************************************************************)
MaxSaves == 2
MaxVersionTenths == 130
MaxTurns == 2

Sessions == {"s1", "s2"}
Chefs    == {"chef1", "chef2"}
Types    == {"plate", "batch"}

(***************************************************************************)
(* Text                                                                    *)
(***************************************************************************)
LowerChar(c) ==
    CASE c = "A" -> "a"
      [] c = "B" -> "b"
      [] c = "S" -> "s"
      [] OTHER   -> c

\* SQL LOWER() / Python str.lower()
Lower(s) == [i \in 1..Len(s) |-> LowerChar(s[i])]

RECURSIVE LStrip(_)
LStrip(s) == IF s # <<>> /\ Head(s) = " " THEN LStrip(Tail(s)) ELSE s

RECURSIVE RStrip(_)
RStrip(s) ==
    IF s # <<>> /\ s[Len(s)] = " " THEN RStrip(SubSeq(s, 1, Len(s) - 1)) ELSE s

\* Python str.strip()
Strip(s) == RStrip(LStrip(s))

\* needle occurs in hay as a contiguous run
Contains(hay, needle) ==
    \E i \in 0..(Len(hay) - Len(needle)) : SubSeq(hay, i + 1, i + Len(needle)) = needle

\* SQL  name ILIKE '%' || q || '%'
ILike(name, q) == Contains(Lower(name), Lower(q))

Digit(d) ==
    CASE d = 0 -> "0" [] d = 1 -> "1" [] d = 2 -> "2" [] d = 3 -> "3" [] d = 4 -> "4"
      [] d = 5 -> "5" [] d = 6 -> "6" [] d = 7 -> "7" [] d = 8 -> "8" [] d = 9 -> "9"

\* Python str(n) of a non-negative integer
RECURSIVE Str(_)
Str(n) == IF n < 10 THEN <<Digit(n)>> ELSE Str(n \div 10) \o <<Digit(n % 10)>>

\* f"{base_name} {version}"
Suffixed(base, n) == base \o <<" ">> \o Str(n)

\* values of int(time.time()) during a run
Timestamps == {170, 171}

(***************************************************************************)
(* Program constants                                                       *)
(***************************************************************************)
\* "while version < 100:  # Safety limit"
ProbeLimit == 100

\* version_number=1.0 of the initial save, in tenths
InitialVersion == 10

\* serves of the plate recipes the callers save
SaveServes == 4

\* cursor_factory of the cursor the save functions open
SaveCursorFactory == "RealDictCursor"

(***************************************************************************)
(* Transactions                                                            *)
(***************************************************************************)
EmptyTxn ==
    [recipes |-> {}, ingredients |-> {}, recipe_ingredients |-> {},
     versions |-> {}, version_ingredients |-> {}]

NoArgs ==
    [op |-> "none", chef |-> "", type |-> "", name |-> <<>>, ings |-> <<>>,
     new_name |-> <<>>, new_description |-> "", new_serves |-> 0,
     base_name |-> <<>>, unique_name |-> <<>>, version |-> 0,
     recipe_id |-> 0, old_name |-> <<>>, created |-> 0, todo |-> <<>>]

NoResult ==
    [exact_match |-> FALSE, best_match |-> FALSE, total_found |-> 0,
     recipe_type |-> "", recipe |-> 0, plate_recipes |-> <<>>, batch_recipes |-> <<>>]

NoReturn ==
    [op |-> "none", session |-> "", success |-> FALSE, message |-> <<>>,
     recipe_id |-> 0, name |-> <<>>, query |-> <<>>, chef |-> "", type |-> "",
     ings |-> <<>>, new_name |-> <<>>, new_description |-> "", new_serves |-> 0,
     available |-> <<>>, result |-> NoResult]

\* f"Recipe '{recipe_name}' not found"
NotFoundMessage(recipe_name) == <<"Recipe '">> \o recipe_name \o <<"' not found">>

\* f"Deleted {recipe_type} recipe '{actual_name}'"
DeletedMessage(recipe_type, actual_name) ==
    <<"Deleted ", recipe_type, " recipe '">> \o actual_name \o <<"'">>

(***************************************************************************)
(* Spreadsheet mirror: google_sheets.add_*_recipe / update_recipe /        *)
(* delete_recipe, called inside "try: ... except Exception as sheets_error" *)
(***************************************************************************)
\* what a call of the mirror may do: return, or raise
SheetsOutcomes == {"synced", "failed"}

NoSync == [op |-> "none", recipe_id |-> 0, outcome |-> "none"]

SheetsCall(op, recipe_id, outcome) == [op |-> op, recipe_id |-> recipe_id, outcome |-> outcome]

\* variant: the exception of the mirror reaches the outer handler, which
\* returns a failure
AfterMirrorRaising(result, outcome) ==
    IF outcome = "failed" THEN [result EXCEPT !.success = FALSE, !.recipe_id = 0] ELSE result

\* the value the function returns after the mirror call: the handler logs a
\* warning and the return statement that follows runs either way
AfterMirror(result, outcome) == result

\* variant: the commit is missing
CommitNothing(table, pending) == table

\* conn.commit(): the rows the session wrote become visible to every session
Commit(table, pending) == table \cup pending

\* conn.rollback(): the rows the session wrote since its last commit are dropped
Rollback(pending) == EmptyTxn

(***************************************************************************)
(* Name Uniqueness Resolver: _get_unique_recipe_name                       *)
(***************************************************************************)
\* variant: the comparison without LOWER()
NameExistsCaseSensitive(rows, chef, type, n) ==
    \E r \in rows : r.chef = chef /\ r.type = type /\ r.name = n

\* SELECT name FROM {table} WHERE chef_id = %s AND LOWER(name) = LOWER(%s)
NameExists(rows, chef, type, n) ==
    \E r \in rows : r.chef = chef /\ r.type = type /\ Lower(r.name) = Lower(n)

(***************************************************************************)
(* Ingredient catalog: _get_or_create_ingredient                           *)
(***************************************************************************)
\* SELECT id FROM ingredients WHERE chef_id = %s AND LOWER(name) = LOWER(%s) LIMIT 1
FindIngredient(rows, chef, n) ==
    { i \in rows : i.chef = chef /\ Lower(i.name) = Lower(n) }

\* ids the call may return: any row the SELECT may yield, else the id of the
\* row it inserts
GetOrCreateIds(rows, chef, n, fresh) ==
    IF FindIngredient(rows, chef, n) # {}
    THEN { i.id : i \in FindIngredient(rows, chef, n) }
    ELSE { fresh }

(***************************************************************************)
(* Version Store: _create_recipe_version                                   *)
(***************************************************************************)
\* cur.fetchone()[0]: a RealDictCursor row is a dict keyed by column name and
\* has no integer index; a default cursor row is a tuple
RowIndex0(cursor_factory) ==
    IF cursor_factory = "RealDictCursor" THEN "KeyError" ELSE "value"

\* INSERT INTO {plate,batch}_recipe_versions (..., is_active, ...) VALUES (..., true, ...)
VersionRow(recipe_id, version_number, recipe_data, created_by, change_summary, change_reason) ==
    [id |-> recipe_id, recipe_id |-> recipe_id, version_number |-> version_number,
     is_active |-> TRUE, created_by |-> created_by,
     change_summary |-> change_summary, change_reason |-> change_reason,
     name |-> recipe_data.name, description |-> recipe_data.description,
     serves |-> recipe_data.serves]

\* SELECT * FROM {plate,batch}_recipe_versions WHERE recipe_id = %s
VersionsOf(recipe_id) == { v \in versions : v.recipe_id = recipe_id }

\* the loop "for ing in ingredients" of _create_recipe_version:
\* SELECT id FROM ingredients WHERE name = %s, INSERT INTO ingredients (name, unit,
\* category) when there is none, then INSERT INTO {plate,batch}_version_ingredients
RECURSIVE SnapshotIngredients(_, _, _, _)
SnapshotIngredients(todo, version_id, acc, fresh) ==
    IF todo = <<>> THEN acc
    ELSE LET n     == Head(todo)
             found == { i \in acc.visible : i.name = n }
             row   == IF found # {} THEN CHOOSE i \in found : TRUE
                      ELSE [id |-> fresh, chef |-> "", name |-> n]
             link  == [version_id |-> version_id, ingredient_id |-> row.id,
                       pos |-> Cardinality(acc.links) + 1]
         IN  SnapshotIngredients(Tail(todo), version_id,
                [visible |-> acc.visible \cup {row},
                 created |-> IF found # {} THEN acc.created ELSE acc.created \cup {row},
                 links   |-> acc.links \cup {link}],
                IF found # {} THEN fresh ELSE fresh + 1)

(***************************************************************************)
(* The pure functions: no call made yet                                    *)
(***************************************************************************)
\* the unit normalizer before its call
NoNorm == [called |-> FALSE, unit |-> <<>>, result |-> <<>>]

\* the change detector's result before its call
NoDetection == [summary |-> <<>>, fields_changed |-> <<>>, change_type |-> "none",
                changes |-> <<>>]

\* the change detector before its call
NoDetect == [called |-> FALSE, old_data |-> <<>>, new_data |-> <<>>,
             old_ingredients |-> <<>>, new_ingredients |-> <<>>, result |-> NoDetection]

\* positions of a search with respect to the pool: not begun, holding the
\* connection of smart_search_recipes, about to call get_recipe_by_name,
\* holding that function's connection too, back from it, returned, raised
PoolPositions ==
    {"start", "querying", "details", "fetching", "returning", "done", "failed"}

\* the pool with no search begun or to come
NoPool == [used |-> 0, at |-> [p \in PoolPositions |-> 0]]

\* self.messages = [{"role": "system", "content": SYSTEM_PROMPT}]
SystemMessage == [role |-> "system", tool_calls |-> <<>>, tool_call_id |-> 0]

\* the orchestrator after __init__
NoConv == [messages |-> <<SystemMessage>>, pc |-> "idle", todo |-> <<>>,
           turns |-> 0, next_id |-> 1]

(***************************************************************************)
(* Initial state: an empty store, every session idle                       *)
(***************************************************************************)
Init ==
    /\ recipes = {}
    /\ ingredients = {}
    /\ recipe_ingredients = {}
    /\ versions = {}
    /\ version_ingredients = {}
    /\ txn = [s \in Sessions |-> EmptyTxn]
    /\ pc = [s \in Sessions |-> "idle"]
    /\ args = [s \in Sessions |-> NoArgs]
    /\ clock = 0
    /\ nextIng = 1
    /\ ret = NoReturn
    /\ vprev = 0
    /\ vcur = 0
    /\ vtype = "none"
    /\ sheets = NoSync
    /\ pool = NoPool
    /\ conv = NoConv
    /\ detect = NoDetect
    /\ norm = NoNorm

(***************************************************************************)
(* save_plate_recipe / save_batch_recipe                                   *)
(***************************************************************************)
\* get_connection() and conn.cursor(): the transaction of the save begins
SaveBegin(s, chef, type, name, ings) ==
    /\ pc[s] = "idle"
    /\ clock < MaxSaves
    /\ clock' = clock + 1
    /\ args' = [args EXCEPT ![s] =
                  [NoArgs EXCEPT !.op = "save", !.chef = chef, !.type = type,
                                 !.name = name, !.ings = ings,
                                 !.created = clock + 1]]
    /\ pc' = [pc EXCEPT ![s] = "save_check"]
    /\ ret' = NoReturn
    /\ sheets' = NoSync
    /\ UNCHANGED <<storeVars, txn, nextIng, calcVars>>

\* _get_unique_recipe_name up to "version = 2": is the stripped name in use?
SaveCheckBase(s) ==
    /\ pc[s] = "save_check"
    /\ LET a    == args[s]
           base == Strip(a.name)
       IN  IF ~NameExists(recipes \cup txn[s].recipes, a.chef, a.type, base)
           THEN /\ args' = [args EXCEPT ![s].base_name = base, ![s].unique_name = base]
                /\ pc' = [pc EXCEPT ![s] = "save_insert"]
           ELSE /\ args' = [args EXCEPT ![s].base_name = base, ![s].version = 2]
                /\ pc' = [pc EXCEPT ![s] = "save_probe"]
    /\ ret' = NoReturn
    /\ sheets' = NoSync
    /\ UNCHANGED <<storeVars, txn, clock, nextIng, calcVars>>

\* one turn of "while version < 100", or the timestamp fallback after the loop
SaveProbe(s) ==
    /\ pc[s] = "save_probe"
    /\ LET a == args[s]
           versioned_name == Suffixed(a.base_name, a.version)
       IN  IF a.version < ProbeLimit
           THEN IF ~NameExists(recipes \cup txn[s].recipes, a.chef, a.type, versioned_name)
                THEN /\ args' = [args EXCEPT ![s].unique_name = versioned_name]
                     /\ pc' = [pc EXCEPT ![s] = "save_insert"]
                ELSE /\ args' = [args EXCEPT ![s].version = a.version + 1]
                     /\ pc' = pc
           ELSE \E timestamp \in Timestamps :
                     /\ args' = [args EXCEPT ![s].unique_name =
                                                 Suffixed(a.base_name, timestamp)]
                     /\ pc' = [pc EXCEPT ![s] = "save_insert"]
    /\ ret' = NoReturn
    /\ sheets' = NoSync
    /\ UNCHANGED <<storeVars, txn, clock, nextIng, calcVars>>

\* "name = unique_name" and INSERT INTO {plate,batch}_recipes ... RETURNING id
SaveInsert(s) ==
    /\ pc[s] = "save_insert"
    /\ LET a   == args[s]
           row == [id |-> a.created, chef |-> a.chef, type |-> a.type,
                   name |-> a.unique_name, description |-> "",
                   serves |-> IF a.type = "plate" THEN SaveServes ELSE 0,
                   created |-> a.created]
       IN  /\ txn' = [txn EXCEPT ![s].recipes = @ \cup {row}]
           /\ args' = [args EXCEPT ![s].recipe_id = row.id, ![s].todo = a.ings]
    /\ pc' = [pc EXCEPT ![s] = "save_ingredients"]
    /\ ret' = NoReturn
    /\ sheets' = NoSync
    /\ UNCHANGED <<storeVars, clock, nextIng, calcVars>>

\* one turn of "for ing in ingredients": _get_or_create_ingredient and the
\* INSERT INTO {plate,batch}_ingredients
SaveIngredient(s) ==
    /\ pc[s] = "save_ingredients"
    /\ args[s].todo # <<>>
    /\ LET a       == args[s]
           n       == Head(a.todo)
           visible == ingredients \cup txn[s].ingredients
       IN  \E ing_id \in GetOrCreateIds(visible, a.chef, n, nextIng) :
             LET created == IF ing_id = nextIng /\ FindIngredient(visible, a.chef, n) = {}
                            THEN { [id |-> nextIng, chef |-> a.chef, name |-> n] }
                            ELSE {}
                 link == [recipe_id |-> a.recipe_id, ingredient_id |-> ing_id,
                          pos |-> Len(a.ings) - Len(a.todo) + 1]
             IN  /\ txn' = [txn EXCEPT ![s].ingredients = @ \cup created,
                                       ![s].recipe_ingredients = @ \cup {link}]
                 /\ nextIng' = IF created = {} THEN nextIng ELSE nextIng + 1
    /\ args' = [args EXCEPT ![s].todo = Tail(@)]
    /\ ret' = NoReturn
    /\ sheets' = NoSync
    /\ UNCHANGED <<storeVars, pc, clock, calcVars>>

\* the first conn.commit(): recipe row, catalog rows and links are committed
SaveCommit(s) ==
    /\ pc[s] = "save_ingredients"
    /\ args[s].todo = <<>>
    /\ recipes' = Commit(recipes, txn[s].recipes)
    /\ ingredients' = Commit(ingredients, txn[s].ingredients)
    /\ recipe_ingredients' = Commit(recipe_ingredients, txn[s].recipe_ingredients)
    /\ txn' = [txn EXCEPT ![s] = EmptyTxn]
    /\ pc' = [pc EXCEPT ![s] = "save_version"]
    /\ ret' = NoReturn
    /\ sheets' = NoSync
    /\ UNCHANGED <<versions, version_ingredients, args, clock, nextIng, calcVars>>

\* _create_recipe_version: INSERT INTO {plate,batch}_recipe_versions ... RETURNING id
SaveVersionInsert(s) ==
    /\ pc[s] = "save_version"
    /\ LET a == args[s]
           recipe_data == [name |-> a.unique_name, description |-> "",
                           serves |-> IF a.type = "plate" THEN SaveServes ELSE 0]
       IN  txn' = [txn EXCEPT ![s].versions = @ \cup
                     { VersionRow(a.recipe_id, InitialVersion, recipe_data, a.chef,
                                  "Initial recipe creation (v1.0)", "") }]
    /\ pc' = [pc EXCEPT ![s] = "save_version_id"]
    /\ ret' = NoReturn
    /\ sheets' = NoSync
    /\ UNCHANGED <<storeVars, args, clock, nextIng, calcVars>>

\* "version_id = cur.fetchone()[0]" on the save's cursor.  When it raises, the
\* handler "except Exception as version_error" logs and calls conn.rollback();
\* otherwise the ingredient snapshot is written and the second conn.commit() runs.
SaveVersionId(s) ==
    /\ pc[s] = "save_version_id"
    /\ IF RowIndex0(SaveCursorFactory) = "KeyError"
       THEN /\ txn' = [txn EXCEPT ![s] = Rollback(txn[s])]
            /\ UNCHANGED <<storeVars, nextIng>>
       ELSE LET a    == args[s]
                snap == SnapshotIngredients(a.ings, a.recipe_id,
                           [visible |-> ingredients \cup txn[s].ingredients,
                            created |-> {}, links |-> {}], nextIng)
            IN  /\ versions' = Commit(versions, txn[s].versions)
                /\ ingredients' = Commit(ingredients, snap.created)
                /\ version_ingredients' = Commit(version_ingredients, snap.links)
                /\ nextIng' = nextIng + Cardinality(snap.created)
                /\ txn' = [txn EXCEPT ![s] = EmptyTxn]
                /\ UNCHANGED <<recipes, recipe_ingredients>>
    /\ pc' = [pc EXCEPT ![s] = "save_sync"]
    /\ ret' = NoReturn
    /\ sheets' = NoSync
    /\ UNCHANGED <<args, clock, calcVars>>

\* the spreadsheet mirror, "return str(recipe_id)" and return_connection()
SaveReturn(s) ==
    /\ pc[s] = "save_sync"
    /\ \E outcome \in SheetsOutcomes :
         /\ sheets' = SheetsCall("save", args[s].recipe_id, outcome)
         /\ ret' = AfterMirror(
                      [NoReturn EXCEPT !.op = "save", !.session = s, !.success = TRUE,
                                       !.recipe_id = args[s].recipe_id,
                                       !.name = args[s].unique_name,
                                       !.chef = args[s].chef, !.type = args[s].type,
                                       !.ings = args[s].ings],
                      outcome)
    /\ args' = [args EXCEPT ![s] = NoArgs]
    /\ pc' = [pc EXCEPT ![s] = "idle"]
    /\ UNCHANGED <<storeVars, txn, clock, nextIng, calcVars>>

(***************************************************************************)
(* update_recipe                                                           *)
(***************************************************************************)
\* variant: the lookup without the chef
FindRecipeAnyChef(rows, chef, type, recipe_name) ==
    { r \in rows : r.type = type /\ Lower(r.name) = Lower(recipe_name) }

\* SELECT id, name FROM {table} WHERE chef_id = %s AND LOWER(name) = LOWER(%s)
FindRecipe(rows, chef, type, recipe_name) ==
    { r \in rows : r.chef = chef /\ r.type = type /\ Lower(r.name) = Lower(recipe_name) }

\* variant: serves is written for a batch recipe too
UpdatedFieldsAnyType(type, new_name, new_description, new_serves) ==
    (IF new_name # <<>> THEN {"name"} ELSE {})
    \cup (IF new_description # "" THEN {"description"} ELSE {})
    \cup (IF new_serves # 0 THEN {"serves"} ELSE {})

\* the SET list "updates" built from the truthy arguments
UpdatedFields(type, new_name, new_description, new_serves) ==
    (IF new_name # <<>> THEN {"name"} ELSE {})
    \cup (IF new_description # "" THEN {"description"} ELSE {})
    \cup (IF type = "plate" /\ new_serves # 0 THEN {"serves"} ELSE {})

\* variant: the SET list names every column, supplied or not
ApplyUpdateEveryField(r, fields, new_name, new_description, new_serves) ==
    [r EXCEPT !.name = new_name, !.description = new_description, !.serves = new_serves]

\* UPDATE {table} SET ... WHERE id = %s, applied to one row
ApplyUpdate(r, fields, new_name, new_description, new_serves) ==
    [r EXCEPT !.name = IF "name" \in fields THEN new_name ELSE @,
              !.description = IF "description" \in fields THEN new_description ELSE @,
              !.serves = IF "serves" \in fields THEN new_serves ELSE @]

\* lookup of the recipe and construction of the SET list; both early returns
UpdateLookup(s, chef, recipe_name, type, new_name, new_description, new_serves) ==
    /\ pc[s] = "idle"
    /\ LET found == FindRecipe(recipes, chef, type, recipe_name)
       IN  IF found = {}
           THEN /\ ret' = [NoReturn EXCEPT !.op = "update", !.session = s,
                               !.message = NotFoundMessage(recipe_name),
                               !.name = recipe_name, !.chef = chef, !.type = type]
                /\ UNCHANGED <<pc, args>>
           ELSE \E recipe \in found :
                  IF UpdatedFields(type, new_name, new_description, new_serves) = {}
                  THEN /\ ret' = [NoReturn EXCEPT !.op = "update", !.session = s,
                                      !.message = <<"No fields to update">>,
                                      !.recipe_id = recipe.id, !.name = recipe_name,
                                      !.chef = chef, !.type = type,
                                      !.new_name = new_name,
                                      !.new_description = new_description,
                                      !.new_serves = new_serves]
                       /\ UNCHANGED <<pc, args>>
                  ELSE /\ args' = [args EXCEPT ![s] =
                                     [NoArgs EXCEPT !.op = "update", !.chef = chef,
                                        !.type = type, !.name = recipe_name,
                                        !.new_name = new_name,
                                        !.new_description = new_description,
                                        !.new_serves = new_serves,
                                        !.recipe_id = recipe.id,
                                        !.old_name = recipe.name]]
                       /\ pc' = [pc EXCEPT ![s] = "update_apply"]
                       /\ ret' = NoReturn
    /\ sheets' = NoSync
    /\ UNCHANGED <<storeVars, txn, clock, nextIng, calcVars>>

\* the UPDATE statement, conn.commit(), the success message (its text after
\* "Updated" lists the changed fields and is left out), the spreadsheet mirror
\* and the return
UpdateApply(s) ==
    /\ pc[s] = "update_apply"
    /\ LET a      == args[s]
           fields == UpdatedFields(a.type, a.new_name, a.new_description, a.new_serves)
       IN  /\ recipes' = { IF r.id = a.recipe_id
                           THEN ApplyUpdate(r, fields, a.new_name, a.new_description,
                                            a.new_serves)
                           ELSE r : r \in recipes }
           /\ \E outcome \in SheetsOutcomes :
                /\ sheets' = SheetsCall("update", a.recipe_id, outcome)
                /\ ret' = AfterMirror(
                             [NoReturn EXCEPT !.op = "update", !.session = s,
                                 !.success = TRUE, !.message = <<"Updated">>,
                                 !.recipe_id = a.recipe_id,
                                 !.name = IF a.new_name # <<>> THEN a.new_name
                                          ELSE a.old_name,
                                 !.chef = a.chef, !.type = a.type],
                             outcome)
    /\ args' = [args EXCEPT ![s] = NoArgs]
    /\ pc' = [pc EXCEPT ![s] = "idle"]
    /\ UNCHANGED <<ingredients, recipe_ingredients, versions, version_ingredients,
                   txn, clock, nextIng, calcVars>>

(***************************************************************************)
(* delete_recipe                                                           *)
(***************************************************************************)
\* rows of the link and version tables that go with a deleted recipe row
CascadeLinks(rows, recipe_id) == { l \in rows : l.recipe_id # recipe_id }

CascadeVersionLinks(rows, recipe_id) == { l \in rows : l.version_id # recipe_id }

Delete(s, chef, recipe_name, type) ==
    /\ pc[s] = "idle"
    /\ LET found == FindRecipe(recipes, chef, type, recipe_name)
       IN  IF found = {}
           THEN /\ ret' = [NoReturn EXCEPT !.op = "delete", !.session = s,
                               !.message = NotFoundMessage(recipe_name),
                               !.name = recipe_name, !.chef = chef, !.type = type]
                /\ sheets' = NoSync
                /\ UNCHANGED storeVars
           ELSE \E recipe \in found :
                  /\ recipes' = recipes \ {recipe}
                  /\ recipe_ingredients' = CascadeLinks(recipe_ingredients, recipe.id)
                  /\ versions' = CascadeLinks(versions, recipe.id)
                  /\ version_ingredients' =
                         CascadeVersionLinks(version_ingredients, recipe.id)
                  /\ \E outcome \in SheetsOutcomes :
                       /\ sheets' = SheetsCall("delete", recipe.id, outcome)
                       /\ ret' = AfterMirror(
                                    [NoReturn EXCEPT !.op = "delete", !.session = s,
                                        !.success = TRUE,
                                        !.message = DeletedMessage(type, recipe.name),
                                        !.recipe_id = recipe.id, !.name = recipe.name,
                                        !.chef = chef, !.type = type],
                                    outcome)
                  /\ UNCHANGED ingredients
    /\ UNCHANGED <<txn, pc, args, clock, nextIng, calcVars>>

(***************************************************************************)
(* Search Resolver: get_recipe_by_name and smart_search_recipes            *)
(***************************************************************************)
\* variant: ORDER BY created_at ASC LIMIT 1
Oldest(rows) == CHOOSE r \in rows : \A q \in rows : q.created >= r.created

\* ORDER BY created_at DESC LIMIT 1
Newest(rows) == CHOOSE r \in rows : \A q \in rows : q.created <= r.created

\* ORDER BY created_at DESC, as a sequence of ids
RECURSIVE NewestFirst(_)
NewestFirst(rows) ==
    IF rows = {} THEN <<>>
    ELSE <<Newest(rows).id>> \o NewestFirst(rows \ {Newest(rows)})

\* LIMIT n
Limit(seq, n) == SubSeq(seq, 1, IF Len(seq) < n THEN Len(seq) ELSE n)

\* SELECT ... WHERE chef_id = %s AND name ILIKE %s  with the pattern '%q%'
ILikeRows(rows, chef, type, q) ==
    { r \in rows : r.chef = chef /\ r.type = type /\ ILike(r.name, q) }

\* variant: the exact tier matches names that contain the query
ExactRowsContaining(rows, chef, type, query_lower) ==
    { r \in rows : r.chef = chef /\ r.type = type /\ Contains(Lower(r.name), query_lower) }

\* SELECT ... WHERE chef_id = %s AND LOWER(name) = %s
ExactRows(rows, chef, type, query_lower) ==
    { r \in rows : r.chef = chef /\ r.type = type /\ Lower(r.name) = query_lower }

\* id of the recipe whose full details are returned, 0 for None
get_recipe_by_name(rows, chef, name, recipe_type) ==
    IF recipe_type \in {"None", "batch"} /\ ILikeRows(rows, chef, "batch", name) # {}
    THEN Newest(ILikeRows(rows, chef, "batch", name)).id
    ELSE IF recipe_type \in {"None", "plate"} /\ ILikeRows(rows, chef, "plate", name) # {}
    THEN Newest(ILikeRows(rows, chef, "plate", name)).id
    ELSE 0

\* SELECT i.name, ... FROM {plate,batch}_ingredients JOIN ingredients i
\* ON ingredient_id = i.id WHERE recipe id = %s: the 'ingredients' of the
\* returned recipe, each with the position of its link
RecipeIngredients(links, catalog, recipe_id) ==
    LET joined == { x \in links \X catalog :
                      x[1].recipe_id = recipe_id /\ x[2].id = x[1].ingredient_id }
    IN  { [pos |-> x[1].pos, name |-> x[2].name] : x \in joined }

\* Python str.split(): the maximal runs of non-blank characters
RECURSIVE SplitFrom(_, _, _)
SplitFrom(s, word, acc) ==
    IF s = <<>> THEN (IF word = <<>> THEN acc ELSE Append(acc, word))
    ELSE IF Head(s) = " "
         THEN SplitFrom(Tail(s), <<>>, IF word = <<>> THEN acc ELSE Append(acc, word))
         ELSE SplitFrom(Tail(s), Append(word, Head(s)), acc)

Split(s) == SplitFrom(s, <<>>, <<>>)

LongerThan2(kw) == Len(kw) > 2

\* keywords = [kw for kw in query_lower.split() if len(kw) > 2] or [query_lower]
Keywords(query_lower) ==
    IF SelectSeq(Split(query_lower), LongerThan2) = <<>>
    THEN <<query_lower>>
    ELSE SelectSeq(Split(query_lower), LongerThan2)

\* variant: every fetched row is appended, seen or not
AppendSeenToo(acc, ids) == acc \o ids

\* "if row['id'] not in seen: seen.add(row['id']); results.append(row)"
RECURSIVE AppendUnseen(_, _)
AppendUnseen(acc, ids) ==
    IF ids = <<>> THEN acc
    ELSE AppendUnseen(IF \E i \in 1..Len(acc) : acc[i] = Head(ids)
                      THEN acc ELSE Append(acc, Head(ids)),
                      Tail(ids))

\* the loop "for kw in keywords" for one recipe type
RECURSIVE KeywordMatches(_, _, _, _, _)
KeywordMatches(rows, chef, type, kws, acc) ==
    IF kws = <<>> THEN acc
    ELSE KeywordMatches(rows, chef, type, Tail(kws),
            AppendUnseen(acc, Limit(NewestFirst(ILikeRows(rows, chef, type, Head(kws))), 5)))

RowById(rows, id) == CHOOSE r \in rows : r.id = id

smart_search_recipes(rows, chef, query) ==
    LET query_clean    == Strip(query)
        query_lower    == Lower(query_clean)
        exact_plate    == ExactRows(rows, chef, "plate", query_lower)
        exact_batch    == ExactRows(rows, chef, "batch", query_lower)
        contains_plate == ILikeRows(rows, chef, "plate", query_clean)
        contains_batch == ILikeRows(rows, chef, "batch", query_clean)
        plates   == KeywordMatches(rows, chef, "plate", Keywords(query_lower), <<>>)
        batches  == KeywordMatches(rows, chef, "batch", Keywords(query_lower), <<>>)
        total    == Len(plates) + Len(batches)
    IN  IF exact_plate # {}
        THEN [exact_match |-> TRUE, best_match |-> FALSE, total_found |-> 1,
              recipe_type |-> "plate",
              recipe |-> get_recipe_by_name(rows, chef, Newest(exact_plate).name, "plate"),
              plate_recipes |-> <<Newest(exact_plate).id>>, batch_recipes |-> <<>>]
        ELSE IF exact_batch # {}
        THEN [exact_match |-> TRUE, best_match |-> FALSE, total_found |-> 1,
              recipe_type |-> "batch",
              recipe |-> get_recipe_by_name(rows, chef, Newest(exact_batch).name, "batch"),
              plate_recipes |-> <<>>, batch_recipes |-> <<Newest(exact_batch).id>>]
        ELSE IF contains_plate # {}
        THEN [exact_match |-> FALSE, best_match |-> TRUE, total_found |-> 1,
              recipe_type |-> "plate",
              recipe |-> get_recipe_by_name(rows, chef, Newest(contains_plate).name, "plate"),
              plate_recipes |-> <<Newest(contains_plate).id>>, batch_recipes |-> <<>>]
        ELSE IF contains_batch # {}
        THEN [exact_match |-> FALSE, best_match |-> TRUE, total_found |-> 1,
              recipe_type |-> "batch",
              recipe |-> get_recipe_by_name(rows, chef, Newest(contains_batch).name, "batch"),
              plate_recipes |-> <<>>, batch_recipes |-> <<Newest(contains_batch).id>>]
        ELSE [exact_match |-> FALSE, best_match |-> FALSE, total_found |-> total,
              recipe_type |-> IF total # 1 THEN ""
                              ELSE IF plates # <<>> THEN "plate" ELSE "batch",
              recipe |-> IF total # 1 THEN 0
                         ELSE IF plates # <<>>
                              THEN get_recipe_by_name(rows, chef,
                                       RowById(rows, plates[1]).name, "plate")
                              ELSE get_recipe_by_name(rows, chef,
                                       RowById(rows, batches[1]).name, "batch"),
              plate_recipes |-> plates, batch_recipes |-> batches]

Search(s, chef, query) ==
    /\ pc[s] = "idle"
    /\ ret' = [NoReturn EXCEPT !.op = "search", !.session = s, !.success = TRUE,
                   !.query = query, !.chef = chef,
                   !.result = smart_search_recipes(recipes, chef, query)]
    /\ sheets' = NoSync
    /\ UNCHANGED <<storeVars, txn, pc, args, clock, nextIng, calcVars>>

\* names of a sequence of recipe ids
NamesOf(rows, ids) == [i \in 1..Len(ids) |-> RowById(rows, ids[i]).name]

\* default of the parameter "limit" of list_chef_recipes
ListLimit == 50

\* number of names both callers keep of a list: available[:5]
SampleSize == 5

\* SELECT ... WHERE chef_id = %s ORDER BY created_at DESC LIMIT %s, per table
list_chef_recipes(rows, chef, limit) ==
    [batch_recipes |->
        NamesOf(rows, Limit(NewestFirst({ r \in rows : r.chef = chef /\ r.type = "batch" }),
                            limit)),
     plate_recipes |->
        NamesOf(rows, Limit(NewestFirst({ r \in rows : r.chef = chef /\ r.type = "plate" }),
                            limit))]

\* ChefAssistant.search_recipes (main.py): the names it speaks when the search
\* found nothing, "available[:5]" of the batch names followed by the plate names
AssistantSample(rows, chef) ==
    Limit(list_chef_recipes(rows, chef, ListLimit).batch_recipes
            \o list_chef_recipes(rows, chef, ListLimit).plate_recipes, SampleSize)

\* ConversationOrchestrator._execute_search_recipes (orchestrator.py): the
\* names of "available_batch_recipes" followed by "available_plate_recipes"
OrchestratorSample(rows, chef) ==
    Limit(list_chef_recipes(rows, chef, ListLimit).batch_recipes, SampleSize)
        \o Limit(list_chef_recipes(rows, chef, ListLimit).plate_recipes, SampleSize)

\* the tool layer's search: smart_search_recipes, then the branch on its result
ToolSearch(s, op, chef, query, sample) ==
    /\ pc[s] = "idle"
    /\ LET results == smart_search_recipes(recipes, chef, query)
       IN  ret' = [NoReturn EXCEPT !.op = op, !.session = s, !.query = query,
                      !.chef = chef, !.result = results,
                      !.success = (results.exact_match \/ results.best_match
                                      \/ results.total_found > 0),
                      !.available =
                          IF results.exact_match \/ results.best_match
                             \/ results.total_found # 0
                          THEN <<>> ELSE sample]
    /\ sheets' = NoSync
    /\ UNCHANGED <<storeVars, txn, pc, args, clock, nextIng, calcVars>>

search_recipes(s, chef, query) ==
    ToolSearch(s, "search_recipes", chef, query, AssistantSample(recipes, chef))

execute_search_recipes(s, chef, query) ==
    ToolSearch(s, "_execute_search_recipes", chef, query, OrchestratorSample(recipes, chef))

(***************************************************************************)
(* Version numbers: _calculate_next_version, on tenths                     *)
(***************************************************************************)
\* int(current_version)
IntPart(current_version) == current_version \div 10

\* round((current_version - major) * 10)
MinorPart(current_version) == current_version - IntPart(current_version) * 10

\* variant: the minor digit wraps from 9 to 0 and the integer part is kept
calculate_next_version_wrapping(current_version, change_type) ==
    IF change_type = "major"
    THEN (IntPart(current_version) + 1) * 10
    ELSE IntPart(current_version) * 10 + ((MinorPart(current_version) + 1) % 10)

calculate_next_version(current_version, change_type) ==
    IF change_type = "major"
    THEN (IntPart(current_version) + 1) * 10
    ELSE IntPart(current_version) * 10 + (MinorPart(current_version) + 1)

ChangeTypes == {"minor", "major"}

\* one call of the calculator on the number the previous call returned
CalculateNext(change_type) ==
    /\ vcur < MaxVersionTenths
    /\ vprev' = vcur
    /\ vcur' = calculate_next_version(vcur, change_type)
    /\ vtype' = change_type
    /\ UNCHANGED <<storeVars, sessVars, detect, norm, pool, conv>>

(***************************************************************************)
(* Change Detector: _detect_recipe_changes                                 *)
(*                                                                         *)
(* A metadata dict is a function from the tracked field names to optional  *)
(* values: <<>> is None (or a missing key), <<v>> is the value v.  Names,   *)
(* units and the change descriptions are texts.                            *)
(***************************************************************************)
None == <<>>

Some(v) == <<v>>

\* metadata_fields
MetadataFields ==
    <<"name", "description", "serves", "cuisine", "category",
      "prep_time_minutes", "cook_time_minutes", "difficulty">>

\* the field name as the text that is appended to fields_changed
FieldKey(field) ==
    CASE field = "name" -> <<"n", "a", "m", "e">>
      [] field = "description" -> <<"d", "e", "s", "c", "r", "i", "p", "t", "i", "o", "n">>
      [] field = "serves" -> <<"s", "e", "r", "v", "e", "s">>
      [] field = "cuisine" -> <<"c", "u", "i", "s", "i", "n", "e">>
      [] field = "category" -> <<"c", "a", "t", "e", "g", "o", "r", "y">>
      [] field = "prep_time_minutes" -> <<"p", "r", "e", "p", "_", "t", "i", "m", "e", "_", "m", "i", "n", "u", "t", "e", "s">>
      [] field = "cook_time_minutes" -> <<"c", "o", "o", "k", "_", "t", "i", "m", "e", "_", "m", "i", "n", "u", "t", "e", "s">>
      [] field = "difficulty" -> <<"d", "i", "f", "f", "i", "c", "u", "l", "t", "y">>

\* field.replace('_', ' ')
FieldLabel(field) ==
    [i \in 1..Len(FieldKey(field)) |->
        IF FieldKey(field)[i] = "_" THEN " " ELSE FieldKey(field)[i]]

\* the fields whose change is described with both values
NumericFields == {"serves", "prep_time_minutes", "cook_time_minutes"}

\* f"{val}" of an optional integer
FormatNumber(val) == IF val = None THEN <<"N", "o", "n", "e">> ELSE Str(val[1])

\* "if old_val != new_val and new_val is not None"
FieldChanged(old_val, new_val) == old_val # new_val /\ new_val # None

\* the loop "for field in metadata_fields"
RECURSIVE MetadataChanges(_, _, _, _)
MetadataChanges(fields, old_data, new_data, acc) ==
    IF fields = <<>> THEN acc
    ELSE LET field   == Head(fields)
             old_val == old_data[field]
             new_val == new_data[field]
             text    == IF field = "name"
                        THEN << <<"R", "e", "n", "a", "m", "e", "d", " ", "t", "o", " ", "'">> \o new_val[1] \o <<"'">> >>
                        ELSE IF field \in NumericFields
                        THEN << <<"C", "h", "a", "n", "g", "e", "d", " ">> \o FieldLabel(field) \o <<" ", "f", "r", "o", "m", " ">>
                                \o FormatNumber(old_val) \o <<" ", "t", "o", " ">> \o FormatNumber(new_val) >>
                        ELSE <<>>
         IN  MetadataChanges(Tail(fields), old_data, new_data,
                IF FieldChanged(old_val, new_val)
                THEN [changes |-> acc.changes \o text,
                      fields_changed |-> Append(acc.fields_changed, FieldKey(field))]
                ELSE acc)

\* variant: the ingredient maps are keyed by the name as written
IngKeyAsWritten(ing) == ing.name

\* ing['name'].lower(), the key of the ingredient maps
IngKey(ing) == Lower(ing.name)

\* {ing['name'].lower(): ing for ing in ingredients}: a later entry replaces an
\* earlier one with the same key
IngMap(ingredient_list) ==
    [k \in { IngKey(ingredient_list[i]) : i \in 1..Len(ingredient_list) } |->
        ingredient_list[CHOOSE i \in 1..Len(ingredient_list) :
                            /\ IngKey(ingredient_list[i]) = k
                            /\ \A j \in (i + 1)..Len(ingredient_list) :
                                   IngKey(ingredient_list[j]) # k]]

\* the orders in which a Python set may be iterated
Orders(S) ==
    { o \in [1..Cardinality(S) -> S] : \A i, j \in 1..Cardinality(S) : o[i] = o[j] => i = j }

\* f"Removed {ing_name}" / f"Added {ing_name}", one per name, in iteration order
RECURSIVE NameChanges(_, _, _)
NameChanges(word, order, acc) ==
    IF order = <<>> THEN acc
    ELSE NameChanges(word, Tail(order),
            [changes |-> Append(acc.changes, word \o Head(order)),
             fields_changed |-> Append(acc.fields_changed, Head(order))])

\* the loop over the names in both maps: an entry when the quantities differ
RECURSIVE QuantityChanges(_, _, _, _)
QuantityChanges(order, old_ing_map, new_ing_map, acc) ==
    IF order = <<>> THEN acc
    ELSE LET ing_name == Head(order)
             old_ing  == old_ing_map[ing_name]
             new_ing  == new_ing_map[ing_name]
         IN  QuantityChanges(Tail(order), old_ing_map, new_ing_map,
                IF old_ing.quantity # new_ing.quantity
                THEN [changes |-> Append(acc.changes,
                         <<"C", "h", "a", "n", "g", "e", "d", " ">> \o ing_name \o <<" ", "f", "r", "o", "m", " ">>
                           \o Str(old_ing.quantity) \o old_ing.unit \o <<" ", "t", "o", " ">>
                           \o Str(new_ing.quantity) \o new_ing.unit),
                      fields_changed |-> Append(acc.fields_changed, ing_name)]
                ELSE acc)

\* ", ".join(texts)
RECURSIVE Join(_)
Join(texts) ==
    IF texts = <<>> THEN <<>>
    ELSE IF Len(texts) = 1 THEN texts[1]
    ELSE texts[1] \o <<",", " ">> \o Join(Tail(texts))

\* number of change descriptions the summary spells out: changes[:5]
SummaryLimit == 5

\* len(fields_changed) > 3
FieldsThreshold == 3

\* len(removed) > 2, len(added) > 2
IngredientsThreshold == 2

\* the summary string
Summary(changes) ==
    IF changes = <<>> THEN <<"M", "i", "n", "o", "r", " ", "a", "d", "j", "u", "s", "t", "m", "e", "n", "t", "s">>
    ELSE Join(Limit(changes, SummaryLimit))
           \o (IF Len(changes) > SummaryLimit
               THEN <<" ", "a", "n", "d", " ">> \o Str(Len(changes) - SummaryLimit) \o <<" ", "m", "o", "r", "e", " ", "c", "h", "a", "n", "g", "e", "s">>
               ELSE <<>>)

\* _detect_recipe_changes; the three orders are those in which the sets
\* "removed", "added" and the names in both maps are iterated
detect_recipe_changes(old_data, new_data, old_ingredients, new_ingredients, removed_order, added_order, both_order) ==
    LET old_ing_map == IngMap(old_ingredients)
        new_ing_map == IngMap(new_ingredients)
        removed     == DOMAIN old_ing_map \ DOMAIN new_ing_map
        added       == DOMAIN new_ing_map \ DOMAIN old_ing_map
        meta   == MetadataChanges(MetadataFields, old_data, new_data,
                                  [changes |-> <<>>, fields_changed |-> <<>>])
        rem    == NameChanges(<<"R", "e", "m", "o", "v", "e", "d", " ">>, removed_order, meta)
        add    == NameChanges(<<"A", "d", "d", "e", "d", " ">>, added_order, rem)
        all    == QuantityChanges(both_order, old_ing_map, new_ing_map, add)
        major_indicators ==
            \/ \E i \in 1..Len(all.fields_changed) : all.fields_changed[i] = FieldKey("name")
            \/ Len(all.fields_changed) > FieldsThreshold
            \/ Cardinality(removed) > IngredientsThreshold
            \/ Cardinality(added) > IngredientsThreshold
    IN  [summary |-> Summary(all.changes),
         fields_changed |-> all.fields_changed,
         change_type |-> IF major_indicators THEN "major" ELSE "minor",
         changes |-> all.changes]

\* one call of the detector on the arguments drawn at the start
DetectChanges ==
    /\ ~detect.called
    /\ detect.old_data # <<>>
    /\ LET old_keys == DOMAIN IngMap(detect.old_ingredients)
           new_keys == DOMAIN IngMap(detect.new_ingredients)
       IN  \E removed_order \in Orders(old_keys \ new_keys),
              added_order \in Orders(new_keys \ old_keys),
              both_order \in Orders(old_keys \cap new_keys) :
               detect' = [detect EXCEPT !.called = TRUE,
                            !.result = detect_recipe_changes(
                                detect.old_data, detect.new_data,
                                detect.old_ingredients, detect.new_ingredients,
                                removed_order, added_order, both_order)]
    /\ UNCHANGED <<storeVars, sessVars, vprev, vcur, vtype, norm, pool, conv>>

(***************************************************************************)
(* Unit Normalizer: normalize_unit (ingredient_validator.py)               *)
(***************************************************************************)
\* STANDARD_UNITS, every category: <<key, canonical form>>
STANDARD_UNITS ==
    { <<<<"m", "g">>,
        <<"m", "i", "l", "l", "i", "g", "r", "a", "m", "s">>>>,
      <<<<"m", "i", "l", "l", "i", "g", "r", "a", "m">>,
        <<"m", "i", "l", "l", "i", "g", "r", "a", "m", "s">>>>,
      <<<<"m", "i", "l", "l", "i", "g", "r", "a", "m", "s">>,
        <<"m", "i", "l", "l", "i", "g", "r", "a", "m", "s">>>>,
      <<<<"g">>,
        <<"g", "r", "a", "m", "s">>>>,
      <<<<"g", "r", "a", "m">>,
        <<"g", "r", "a", "m", "s">>>>,
      <<<<"g", "r", "a", "m", "s">>,
        <<"g", "r", "a", "m", "s">>>>,
      <<<<"k", "g">>,
        <<"k", "i", "l", "o", "g", "r", "a", "m", "s">>>>,
      <<<<"k", "i", "l", "o", "g", "r", "a", "m">>,
        <<"k", "i", "l", "o", "g", "r", "a", "m", "s">>>>,
      <<<<"k", "i", "l", "o", "g", "r", "a", "m", "s">>,
        <<"k", "i", "l", "o", "g", "r", "a", "m", "s">>>>,
      <<<<"o", "z">>,
        <<"o", "u", "n", "c", "e", "s">>>>,
      <<<<"o", "u", "n", "c", "e">>,
        <<"o", "u", "n", "c", "e", "s">>>>,
      <<<<"o", "u", "n", "c", "e", "s">>,
        <<"o", "u", "n", "c", "e", "s">>>>,
      <<<<"l", "b">>,
        <<"p", "o", "u", "n", "d", "s">>>>,
      <<<<"l", "b", "s">>,
        <<"p", "o", "u", "n", "d", "s">>>>,
      <<<<"p", "o", "u", "n", "d">>,
        <<"p", "o", "u", "n", "d", "s">>>>,
      <<<<"p", "o", "u", "n", "d", "s">>,
        <<"p", "o", "u", "n", "d", "s">>>>,
      <<<<"m", "l">>,
        <<"m", "i", "l", "l", "i", "l", "i", "t", "e", "r", "s">>>>,
      <<<<"m", "i", "l", "l", "i", "l", "i", "t", "e", "r">>,
        <<"m", "i", "l", "l", "i", "l", "i", "t", "e", "r", "s">>>>,
      <<<<"m", "i", "l", "l", "i", "l", "i", "t", "e", "r", "s">>,
        <<"m", "i", "l", "l", "i", "l", "i", "t", "e", "r", "s">>>>,
      <<<<"l">>,
        <<"l", "i", "t", "e", "r", "s">>>>,
      <<<<"l", "i", "t", "e", "r">>,
        <<"l", "i", "t", "e", "r", "s">>>>,
      <<<<"l", "i", "t", "e", "r", "s">>,
        <<"l", "i", "t", "e", "r", "s">>>>,
      <<<<"t", "s", "p">>,
        <<"t", "e", "a", "s", "p", "o", "o", "n">>>>,
      <<<<"t", "e", "a", "s", "p", "o", "o", "n">>,
        <<"t", "e", "a", "s", "p", "o", "o", "n">>>>,
      <<<<"t", "e", "a", "s", "p", "o", "o", "n", "s">>,
        <<"t", "e", "a", "s", "p", "o", "o", "n">>>>,
      <<<<"t", "b", "s", "p">>,
        <<"t", "a", "b", "l", "e", "s", "p", "o", "o", "n">>>>,
      <<<<"t", "a", "b", "l", "e", "s", "p", "o", "o", "n">>,
        <<"t", "a", "b", "l", "e", "s", "p", "o", "o", "n">>>>,
      <<<<"t", "a", "b", "l", "e", "s", "p", "o", "o", "n", "s">>,
        <<"t", "a", "b", "l", "e", "s", "p", "o", "o", "n">>>>,
      <<<<"c", "u", "p">>,
        <<"c", "u", "p">>>>,
      <<<<"c", "u", "p", "s">>,
        <<"c", "u", "p">>>>,
      <<<<"p", "i", "n", "t">>,
        <<"p", "i", "n", "t">>>>,
      <<<<"p", "i", "n", "t", "s">>,
        <<"p", "i", "n", "t">>>>,
      <<<<"q", "u", "a", "r", "t">>,
        <<"q", "u", "a", "r", "t">>>>,
      <<<<"q", "u", "a", "r", "t", "s">>,
        <<"q", "u", "a", "r", "t">>>>,
      <<<<"g", "a", "l", "l", "o", "n">>,
        <<"g", "a", "l", "l", "o", "n">>>>,
      <<<<"g", "a", "l", "l", "o", "n", "s">>,
        <<"g", "a", "l", "l", "o", "n">>>>,
      <<<<"f", "l", " ", "o", "z">>,
        <<"f", "l", "u", "i", "d", " ", "o", "u", "n", "c", "e">>>>,
      <<<<"f", "l", "u", "i", "d", " ", "o", "u", "n", "c", "e">>,
        <<"f", "l", "u", "i", "d", " ", "o", "u", "n", "c", "e">>>>,
      <<<<"f", "l", "u", "i", "d", " ", "o", "u", "n", "c", "e", "s">>,
        <<"f", "l", "u", "i", "d", " ", "o", "u", "n", "c", "e">>>>,
      <<<<"p", "i", "e", "c", "e">>,
        <<"p", "i", "e", "c", "e">>>>,
      <<<<"p", "i", "e", "c", "e", "s">>,
        <<"p", "i", "e", "c", "e">>>>,
      <<<<"w", "h", "o", "l", "e">>,
        <<"w", "h", "o", "l", "e">>>>,
      <<<<"c", "l", "o", "v", "e">>,
        <<"c", "l", "o", "v", "e">>>>,
      <<<<"c", "l", "o", "v", "e", "s">>,
        <<"c", "l", "o", "v", "e">>>>,
      <<<<"s", "l", "i", "c", "e">>,
        <<"s", "l", "i", "c", "e">>>>,
      <<<<"s", "l", "i", "c", "e", "s">>,
        <<"s", "l", "i", "c", "e">>>>,
      <<<<"s", "t", "i", "c", "k">>,
        <<"s", "t", "i", "c", "k">>>>,
      <<<<"s", "t", "i", "c", "k", "s">>,
        <<"s", "t", "i", "c", "k">>>>,
      <<<<"l", "e", "a", "f">>,
        <<"l", "e", "a", "f">>>>,
      <<<<"l", "e", "a", "v", "e", "s">>,
        <<"l", "e", "a", "f">>>>,
      <<<<"s", "p", "r", "i", "g">>,
        <<"s", "p", "r", "i", "g">>>>,
      <<<<"s", "p", "r", "i", "g", "s">>,
        <<"s", "p", "r", "i", "g">>>>,
      <<<<"p", "i", "n", "c", "h">>,
        <<"p", "i", "n", "c", "h">>>>,
      <<<<"d", "a", "s", "h">>,
        <<"d", "a", "s", "h">>>>,
      <<<<"h", "a", "n", "d", "f", "u", "l">>,
        <<"h", "a", "n", "d", "f", "u", "l">>>>,
      <<<<"b", "u", "n", "c", "h">>,
        <<"b", "u", "n", "c", "h">>>>,
      <<<<"s", "m", "a", "l", "l">>,
        <<"s", "m", "a", "l", "l">>>>,
      <<<<"m", "e", "d", "i", "u", "m">>,
        <<"m", "e", "d", "i", "u", "m">>>>,
      <<<<"l", "a", "r", "g", "e">>,
        <<"l", "a", "r", "g", "e">>>>,
      <<<<"t", "o", " ", "t", "a", "s", "t", "e">>,
        <<"t", "o", " ", "t", "a", "s", "t", "e">>>> }

\* normalize_unit: "" for a falsy argument; otherwise the argument is rebound
\* to unit.lower().strip(), looked up, and returned as rebound when not found
normalize_unit(unit) ==
    IF unit = <<>> THEN <<>>
    ELSE LET lowered == Strip(Lower(unit))
         IN  IF \E e \in STANDARD_UNITS : e[1] = lowered
             THEN (CHOOSE e \in STANDARD_UNITS : e[1] = lowered)[2]
             ELSE lowered

\* one call of the normalizer on the argument drawn at the start
NormalizeUnit ==
    /\ ~norm.called
    /\ norm' = [norm EXCEPT !.called = TRUE, !.result = normalize_unit(norm.unit)]
    /\ UNCHANGED <<storeVars, sessVars, vprev, vcur, vtype, detect, pool, conv>>

(***************************************************************************)
(* _create_recipe_version called on a cursor of the caller's choice, for a *)
(* stored recipe, followed by the caller's conn.commit() or, when the      *)
(* function raises, conn.rollback()                                        *)
(***************************************************************************)
\* cursor_factory of the cursor handed to the function: conn.cursor() or
\* conn.cursor(cursor_factory=RealDictCursor)
CursorFactories == {"cursor", "RealDictCursor"}

create_recipe_version(s, cursor_factory, recipe, version_number, ings, change_summary) ==
    /\ pc[s] = "idle"
    /\ recipe \in recipes
    /\ VersionsOf(recipe.id) = {}
    /\ IF RowIndex0(cursor_factory) = "KeyError"
       THEN /\ ret' = [NoReturn EXCEPT !.op = "_create_recipe_version", !.session = s,
                           !.recipe_id = recipe.id, !.chef = recipe.chef,
                           !.type = recipe.type, !.ings = ings]
            /\ UNCHANGED <<storeVars, nextIng>>
       ELSE LET snap == SnapshotIngredients(ings, recipe.id,
                           [visible |-> ingredients, created |-> {}, links |-> {}],
                           nextIng)
            IN  /\ versions' = Commit(versions,
                                  { VersionRow(recipe.id, version_number, recipe,
                                               recipe.chef, change_summary, "") })
                /\ ingredients' = Commit(ingredients, snap.created)
                /\ version_ingredients' = Commit(version_ingredients, snap.links)
                /\ nextIng' = nextIng + Cardinality(snap.created)
                /\ ret' = [NoReturn EXCEPT !.op = "_create_recipe_version",
                               !.session = s, !.success = TRUE,
                               !.recipe_id = recipe.id, !.chef = recipe.chef,
                               !.type = recipe.type, !.ings = ings]
                /\ UNCHANGED <<recipes, recipe_ingredients>>
    /\ sheets' = NoSync
    /\ UNCHANGED <<txn, pc, args, clock, calcVars>>

(***************************************************************************)
(* Connection pool: init_db, get_connection, return_connection, and the    *)
(* connections a search takes.  The searches are counted by position.      *)
(***************************************************************************)
\* maxconn of the SimpleConnectionPool
MaxConn == 10

\* connections a search holds at a position: smart_search_recipes keeps its
\* own from get_connection() to its "finally", and get_recipe_by_name, which it
\* calls in between, takes and returns another
ConnectionsHeld(position) ==
    CASE position \in {"querying", "details", "returning"} -> 1
      [] position = "fetching" -> 2
      [] OTHER -> 0

\* pool.getconn(): a connection when fewer than maxconn are checked out,
\* PoolError otherwise
getconn(used) == IF used < MaxConn THEN "connection" ELSE "PoolError"

\* one search goes from one position to another and the number of
\* connections checked out changes by delta
MoveSearch(from, to, delta) ==
    /\ pool.at[from] > 0
    /\ pool' = [used |-> pool.used + delta,
                at |-> [pool.at EXCEPT ![from] = @ - 1, ![to] = pool.at[to] + 1]]

\* "conn = get_connection()" of get_recipe_by_name, called by a search that
\* holds its own connection; a PoolError leaves smart_search_recipes through
\* its "finally", which returns the connection of the search
get_recipe_by_name_connection ==
    IF getconn(pool.used) = "connection"
    THEN MoveSearch("details", "fetching", 1)
    ELSE MoveSearch("details", "failed", -1)

\* "conn = get_connection()" of smart_search_recipes
SearchGetConnection ==
    /\ IF getconn(pool.used) = "connection"
       THEN MoveSearch("start", "querying", 1)
       ELSE MoveSearch("start", "failed", 0)
    /\ UNCHANGED <<storeVars, sessVars, vprev, vcur, vtype, detect, norm, conv>>

\* the queries of the tiers: a search that found its recipe goes on to
\* get_recipe_by_name, any other returns its lists and its connection
SearchTiers(chef, query) ==
    /\ LET results == smart_search_recipes(recipes, chef, query)
       IN  IF results.exact_match \/ results.best_match \/ results.total_found = 1
           THEN MoveSearch("querying", "details", 0)
           ELSE MoveSearch("querying", "done", -1)
    /\ UNCHANGED <<storeVars, sessVars, vprev, vcur, vtype, detect, norm, conv>>

SearchDetailsConnection ==
    /\ get_recipe_by_name_connection
    /\ UNCHANGED <<storeVars, sessVars, vprev, vcur, vtype, detect, norm, conv>>

\* "finally: cur.close(); return_connection(conn)" of get_recipe_by_name
SearchDetailsReturn ==
    /\ MoveSearch("fetching", "returning", -1)
    /\ UNCHANGED <<storeVars, sessVars, vprev, vcur, vtype, detect, norm, conv>>

\* "finally: cur.close(); return_connection(conn)" of smart_search_recipes
SearchReturnConnection ==
    /\ MoveSearch("returning", "done", -1)
    /\ UNCHANGED <<storeVars, sessVars, vprev, vcur, vtype, detect, norm, conv>>

(***************************************************************************)
(* ConversationOrchestrator.process_message (orchestrator.py): the history *)
(* self.messages, the calls of the language model and the tool calls.  A   *)
(* message keeps its role, its tool calls and the id it answers; contents  *)
(* are left out.                                                           *)
(***************************************************************************)
\* keys of self.functions
functions ==
    {"save_plate_recipe", "save_batch_recipe", "search_recipes", "get_recipe_details",
     "list_recipes"}

\* tool names the language model emits in a run: two tools that only read
\* the store, and a name that is no key of self.functions
EmittedNames == {"search_recipes", "list_recipes", "update_recipe"}

\* argument strings the language model emits in a run: an object, and a
\* text cut off after its first brace
EmittedArguments == { <<"{", "}">>, <<"{">> }

\* json.loads(tool_call.function.arguments), for texts made of braces: the
\* parsed value, or JSONDecodeError
json_loads(arguments) ==
    IF Len(arguments) >= 2 /\ Head(arguments) = "{" /\ arguments[Len(arguments)] = "}"
    THEN "value" ELSE "JSONDecodeError"

ToolCall(id, name, arguments) == [id |-> id, name |-> name, arguments |-> arguments]

\* assistant_message.tool_calls of a response: one call or two, with fresh ids
ToolCallLists(next_id) ==
    { <<ToolCall(next_id, n, a)>> : n \in EmittedNames, a \in EmittedArguments }
    \cup { <<ToolCall(next_id, n1, a1), ToolCall(next_id + 1, n2, a2)>> :
             n1 \in EmittedNames, a1 \in EmittedArguments,
             n2 \in EmittedNames, a2 \in EmittedArguments }

\* {"role": "user", "content": user_message}
UserMessage == [role |-> "user", tool_calls |-> <<>>, tool_call_id |-> 0]

\* {"role": "assistant", "content": ..., "tool_calls": [...]}; no tool calls
\* for a text response
AssistantMessage(tool_calls) ==
    [role |-> "assistant", tool_calls |-> tool_calls, tool_call_id |-> 0]

\* {"role": "tool", "tool_call_id": tool_call.id, "content": json.dumps(result)}
ToolMessage(tool_call_id) ==
    [role |-> "tool", tool_calls |-> <<>>, tool_call_id |-> tool_call_id]

\* outcomes of self._call_groq: a response, or RateLimitError / APIError
\* after the retries
GroqOutcomes == {"response", "error"}

\* process_message up to the first call of the model: the off-topic check,
\* which returns at once, or the user message appended to the history
ReceiveMessage(off_topic) ==
    /\ conv.pc = "idle"
    /\ conv.turns < MaxTurns
    /\ conv' = IF off_topic
               THEN [conv EXCEPT !.turns = @ + 1]
               ELSE [conv EXCEPT !.turns = @ + 1, !.pc = "call",
                                 !.messages = Append(@, UserMessage)]
    /\ UNCHANGED <<storeVars, sessVars, vprev, vcur, vtype, detect, norm, pool>>

\* the first response: text, which is appended and returned, or tool calls,
\* which are appended with the assistant message; an error is answered by
\* the handlers at the end of process_message
FirstResponse(outcome, wants_tools) ==
    /\ conv.pc = "call"
    /\ IF outcome = "error"
       THEN conv' = [conv EXCEPT !.pc = "idle"]
       ELSE IF wants_tools
       THEN \E tool_calls \in ToolCallLists(conv.next_id) :
              conv' = [conv EXCEPT !.messages = Append(@, AssistantMessage(tool_calls)),
                                   !.todo = tool_calls, !.pc = "tools",
                                   !.next_id = @ + Len(tool_calls)]
       ELSE conv' = [conv EXCEPT !.messages = Append(@, AssistantMessage(<<>>)),
                                 !.pc = "idle"]
    /\ UNCHANGED <<storeVars, sessVars, vprev, vcur, vtype, detect, norm, pool>>

\* one turn of "for tool_call in assistant_message.tool_calls": json.loads,
\* whose exception ends process_message in "except Exception", then the
\* executor and the tool message when the name is a key of self.functions
ExecuteToolCall ==
    /\ conv.pc = "tools"
    /\ conv.todo # <<>>
    /\ LET tool_call == Head(conv.todo)
       IN  conv' = IF json_loads(tool_call.arguments) = "JSONDecodeError"
                   THEN [conv EXCEPT !.pc = "idle", !.todo = <<>>]
                   ELSE IF tool_call.name \in functions
                   THEN [conv EXCEPT !.messages = Append(@, ToolMessage(tool_call.id)),
                                     !.todo = Tail(@)]
                   ELSE [conv EXCEPT !.todo = Tail(@)]
    /\ UNCHANGED <<storeVars, sessVars, vprev, vcur, vtype, detect, norm, pool>>

\* the call of the model after the loop and its response, appended and
\* returned; an error is answered by the handlers
FinalResponse(outcome) ==
    /\ conv.pc = "tools"
    /\ conv.todo = <<>>
    /\ conv' = IF outcome = "error"
               THEN [conv EXCEPT !.pc = "idle"]
               ELSE [conv EXCEPT !.messages = Append(@, AssistantMessage(<<>>)),
                                 !.pc = "idle"]
    /\ UNCHANGED <<storeVars, sessVars, vprev, vcur, vtype, detect, norm, pool>>

(***************************************************************************)
(* Specifications                                                          *)
(***************************************************************************)
\* the steps of a save that has begun
SaveSteps(s) ==
    \/ SaveCheckBase(s)
    \/ SaveProbe(s)
    \/ SaveInsert(s)
    \/ SaveIngredient(s)
    \/ SaveCommit(s)
    \/ SaveVersionInsert(s)
    \/ SaveVersionId(s)
    \/ SaveReturn(s)

\* One caller, one call at a time: saves of a few names that collide, with one
\* ingredient, renames, changes of serves, deletes and searches.
SeqChefs == {"chef1", "chef2"}
SeqNames == { <<"b">>, <<"B">>, <<" ", "b">> }
SeqLists == { << <<"s">> >> }
\* the first chef saves every name as either type, the second chef one plate
SeqSaves == ({"chef1"} \X Types \X SeqNames) \cup { <<"chef2", "plate", <<"b">> >> }
SeqNewNames == { <<>>, <<"B">> }
SeqNewServes == { 0, 6 }
SeqTargets == { <<"b">>, <<"b", " ", "2">> }
SeqQueries == { <<"b">>, <<"B", " ">>, <<"2">> }

NextSeq ==
    \/ \E save \in SeqSaves, ings \in SeqLists :
           SaveBegin("s1", save[1], save[2], save[3], ings)
    \/ \E chef \in SeqChefs, type \in Types, recipe_name \in SeqTargets,
          new_name \in SeqNewNames, new_serves \in SeqNewServes :
           UpdateLookup("s1", chef, recipe_name, type, new_name, "", new_serves)
    \/ \E chef \in SeqChefs, type \in Types, recipe_name \in SeqTargets :
           Delete("s1", chef, recipe_name, type)
    \/ \E chef \in SeqChefs, query \in SeqQueries : Search("s1", chef, query)
    \/ SaveSteps("s1")
    \/ UpdateApply("s1")

SeqSpec == Init /\ [][NextSeq]_vars

\* Two callers whose calls interleave between statements: saves of one name in
\* two spellings with one ingredient in two spellings, renames and deletes.
RaceNames == { <<"b">>, <<"B">> }
RaceLists == { << <<"s">> >>, << <<"S">> >> }
RaceNewNames == { <<"a">> }

Next ==
    \E s \in Sessions :
        \/ \E name \in RaceNames, ings \in RaceLists :
               SaveBegin(s, "chef1", "plate", name, ings)
        \/ \E recipe_name \in RaceNames, new_name \in RaceNewNames :
               UpdateLookup(s, "chef1", recipe_name, "plate", new_name, "", 0)
        \/ \E recipe_name \in RaceNames : Delete(s, "chef1", recipe_name, "plate")
        \/ SaveSteps(s)
        \/ UpdateApply(s)

Spec == Init /\ [][Next]_vars

\* One caller saving into a library that already holds the name "b" and its
\* numbered copies "b 2" .. "b 99" (all of them, all but one, one, or none).
LibrarySizes == {0, 1, 99}
LibraryHoles == {0, 57}
LibraryNames == { <<"b">>, <<" ", "B">> }

CopyName(n) == IF n = 1 THEN <<"b">> ELSE Suffixed(<<"b">>, n)

\* rows stored before the run; their ids and creation stamps precede the run's
LibraryRows(size, hole) ==
    { [id |-> n - ProbeLimit, chef |-> "chef1", type |-> "plate", name |-> CopyName(n),
       description |-> "", serves |-> SaveServes, created |-> n - ProbeLimit] :
      n \in (1..size) \ {hole} }

InitLibrary ==
    /\ \E size \in LibrarySizes, hole \in LibraryHoles : recipes = LibraryRows(size, hole)
    /\ ingredients = {}
    /\ recipe_ingredients = {}
    /\ versions = {}
    /\ version_ingredients = {}
    /\ txn = [s \in Sessions |-> EmptyTxn]
    /\ pc = [s \in Sessions |-> "idle"]
    /\ args = [s \in Sessions |-> NoArgs]
    /\ clock = 0
    /\ nextIng = 1
    /\ ret = NoReturn
    /\ vprev = 0
    /\ vcur = 0
    /\ vtype = "none"
    /\ sheets = NoSync
    /\ pool = NoPool
    /\ conv = NoConv
    /\ detect = NoDetect
    /\ norm = NoNorm

NextLibrary ==
    \/ \E chef \in Chefs, type \in Types, name \in LibraryNames, ings \in SeqLists :
           SaveBegin("s1", chef, type, name, ings)
    \/ SaveSteps("s1")

LibrarySpec == InitLibrary /\ [][NextLibrary]_vars

\* Searches over a stored library: any subset of seven recipes of two chefs,
\* plates and batches whose names equal, contain or share a word with the queries.
SearchRow(id, chef, type, name) ==
    [id |-> id, chef |-> chef, type |-> type, name |-> name, description |-> "",
     serves |-> IF type = "plate" THEN SaveServes ELSE 0, created |-> id]

SearchRows ==
    { SearchRow(1, "chef1", "plate", <<"B">>),
      SearchRow(2, "chef1", "batch", <<"b">>),
      SearchRow(3, "chef1", "plate", <<"b", " ", "2">>),
      SearchRow(4, "chef1", "batch", <<"a", " ", "b">>),
      SearchRow(5, "chef1", "plate", <<"b", "a", "b">>),
      SearchRow(6, "chef1", "batch", <<"s", "a", "s">>),
      SearchRow(7, "chef2", "plate", <<"b">>) }

SearchQueries ==
    { <<"b">>, <<" ", "B", " ">>, <<"a">>, <<"2">>, <<"s", "s">>,
      <<"b", "a", "b", " ", "s", "a", "s">> }

InitSearch ==
    /\ recipes \in SUBSET SearchRows
    /\ ingredients = {}
    /\ recipe_ingredients = {}
    /\ versions = {}
    /\ version_ingredients = {}
    /\ txn = [s \in Sessions |-> EmptyTxn]
    /\ pc = [s \in Sessions |-> "idle"]
    /\ args = [s \in Sessions |-> NoArgs]
    /\ clock = 0
    /\ nextIng = 1
    /\ ret = NoReturn
    /\ vprev = 0
    /\ vcur = 0
    /\ vtype = "none"
    /\ sheets = NoSync
    /\ pool = NoPool
    /\ conv = NoConv
    /\ detect = NoDetect
    /\ norm = NoNorm

NextSearch ==
    \E chef \in Chefs, query \in SearchQueries :
        \/ Search("s1", chef, query)
        \/ search_recipes("s1", chef, query)
        \/ execute_search_recipes("s1", chef, query)

SearchSpec == InitSearch /\ [][NextSearch]_vars

\* Versions created for stored plates "b" of two chefs, over a catalog that
\* holds the ingredient "s" for either chef, both or none, on a cursor of
\* either kind, with one or two ingredients.
VersionRows ==
    { SearchRow(1, "chef1", "plate", <<"b">>), SearchRow(2, "chef2", "plate", <<"b">>) }

VersionCatalog ==
    { [id |-> 1, chef |-> "chef1", name |-> <<"s">>],
      [id |-> 2, chef |-> "chef2", name |-> <<"s">>],
      [id |-> 3, chef |-> "chef1", name |-> <<"a">>] }

VersionLists == { <<>>, << <<"s">> >>, << <<"a">>, <<"s">> >>, << <<"S">> >> }

InitVersion ==
    /\ recipes \in SUBSET VersionRows
    /\ ingredients \in SUBSET VersionCatalog
    /\ recipe_ingredients = {}
    /\ versions = {}
    /\ version_ingredients = {}
    /\ txn = [s \in Sessions |-> EmptyTxn]
    /\ pc = [s \in Sessions |-> "idle"]
    /\ args = [s \in Sessions |-> NoArgs]
    /\ clock = 0
    /\ nextIng = 4
    /\ ret = NoReturn
    /\ vprev = 0
    /\ vcur = 0
    /\ vtype = "none"
    /\ sheets = NoSync
    /\ pool = NoPool
    /\ conv = NoConv
    /\ detect = NoDetect
    /\ norm = NoNorm

NextVersion ==
    \E cursor_factory \in CursorFactories, recipe \in VersionRows, ings \in VersionLists :
        create_recipe_version("s1", cursor_factory, recipe, InitialVersion, ings,
                              "Initial recipe creation (v1.0)")

VersionSpec == InitVersion /\ [][NextVersion]_vars

\* One orchestrator processing a few user messages, on or off topic, with a
\* model that answers in text, with one or two tool calls, or not at all.
NextConversation ==
    \/ \E off_topic \in BOOLEAN : ReceiveMessage(off_topic)
    \/ \E outcome \in GroqOutcomes, wants_tools \in BOOLEAN :
           FirstResponse(outcome, wants_tools)
    \/ ExecuteToolCall
    \/ \E outcome \in GroqOutcomes : FinalResponse(outcome)

ConversationSpec == Init /\ [][NextConversation]_vars

\* Searches of the stored library of SearchSpec with a query that is empty
\* or blank.
BlankQueries == { <<>>, <<" ">>, <<" ", " ">> }

NextBlank == \E chef \in Chefs, query \in BlankQueries : Search("s1", chef, query)

BlankSpec == InitSearch /\ [][NextBlank]_vars

\* Searches that reach the keyword tier: any subset of six recipes whose names
\* hold one or both of the words "bab" and "sas", and queries of two words that
\* no name contains as a whole, in both orders, with a word too short to count.
KeywordRows ==
    { SearchRow(1, "chef1", "plate", <<"b", "a", "b">>),
      SearchRow(2, "chef1", "plate", <<"s", "a", "s", "b", "a", "b">>),
      SearchRow(3, "chef1", "batch", <<"s", "a", "s">>),
      SearchRow(4, "chef1", "batch", <<"B", "a", "b", "s", "a", "s">>),
      SearchRow(5, "chef2", "plate", <<"b", "a", "b">>),
      SearchRow(6, "chef1", "plate", <<"S", "a", "s">>) }

KeywordQueries ==
    { <<"b", "a", "b", " ", "s", "a", "s">>, <<"S", "a", "s", " ", " ", "b", "a", "b">>,
      <<"b", "a", " ", "s", "a", "s">>, <<"b", "b">> }

InitKeyword ==
    /\ recipes \in SUBSET KeywordRows
    /\ ingredients = {}
    /\ recipe_ingredients = {}
    /\ versions = {}
    /\ version_ingredients = {}
    /\ txn = [s \in Sessions |-> EmptyTxn]
    /\ pc = [s \in Sessions |-> "idle"]
    /\ args = [s \in Sessions |-> NoArgs]
    /\ clock = 0
    /\ nextIng = 1
    /\ ret = NoReturn
    /\ vprev = 0
    /\ vcur = 0
    /\ vtype = "none"
    /\ sheets = NoSync
    /\ pool = NoPool
    /\ conv = NoConv
    /\ detect = NoDetect
    /\ norm = NoNorm

NextKeyword == \E chef \in Chefs, query \in KeywordQueries : Search("s1", chef, query)

KeywordSpec == InitKeyword /\ [][NextKeyword]_vars

\* As many searches as the pool has connections, begun in any order and
\* interleaved between their statements, over a store that holds a plate "b"
\* of the first chef or nothing.
PoolQueries == { <<"b">>, <<"a">> }

InitPool ==
    /\ recipes \in SUBSET { SearchRow(1, "chef1", "plate", <<"b">>) }
    /\ ingredients = {}
    /\ recipe_ingredients = {}
    /\ versions = {}
    /\ version_ingredients = {}
    /\ txn = [s \in Sessions |-> EmptyTxn]
    /\ pc = [s \in Sessions |-> "idle"]
    /\ args = [s \in Sessions |-> NoArgs]
    /\ clock = 0
    /\ nextIng = 1
    /\ ret = NoReturn
    /\ vprev = 0
    /\ vcur = 0
    /\ vtype = "none"
    /\ sheets = NoSync
    /\ pool = [NoPool EXCEPT !.at["start"] = MaxConn]
    /\ conv = NoConv
    /\ detect = NoDetect
    /\ norm = NoNorm

NextPool ==
    \/ SearchGetConnection
    \/ \E chef \in Chefs, query \in PoolQueries : SearchTiers(chef, query)
    \/ SearchDetailsConnection
    \/ SearchDetailsReturn
    \/ SearchReturnConnection

PoolSpec == InitPool /\ [][NextPool]_vars

\* The change detector applied once to drawn arguments: new metadata that
\* leaves out, empties, repeats or changes a field, and ingredient lists that
\* add, remove and re-quantify up to three names in two spellings.
Data(name, description, serves, cuisine, category) ==
    [name |-> name, description |-> description, serves |-> serves,
     cuisine |-> cuisine, category |-> category, prep_time_minutes |-> None,
     cook_time_minutes |-> None, difficulty |-> None]

Ing(name, quantity, unit) == [name |-> name, quantity |-> quantity, unit |-> unit]

Salt10    == Ing(<<"s", "a", "l", "t">>, 10, <<"g">>)
SaltCap10 == Ing(<<"S", "a", "l", "t">>, 10, <<"g">>)
Salt7     == Ing(<<"s", "a", "l", "t">>, 7, <<"g">>)
Garlic5   == Ing(<<"g", "a", "r", "l", "i", "c">>, 5, <<"g">>)
A1        == Ing(<<"a">>, 1, <<"g">>)
B1        == Ing(<<"b">>, 1, <<"g">>)
Name1     == Ing(<<"n", "a", "m", "e">>, 1, <<"g">>)

DetectOldLists == { <<>>, <<Salt10>>, <<SaltCap10>>, <<Salt10, A1, B1>> }
DetectNewLists ==
    { <<>>, <<Salt10>>, <<Salt7, Garlic5>>, <<Salt10, Name1>>, <<Garlic5, A1, B1>> }

DetectOldData ==
    { Data(Some(<<"b">>), d, Some(4), Some(<<"x">>), None) : d \in {None, Some(<<"x">>)} }

DetectNewData ==
    { [Data(n, d, s, c, g) EXCEPT !.difficulty = f] :
        n \in {None, Some(<<>>), Some(<<"b">>), Some(<<"a">>)},
        d \in {None, Some(<<>>), Some(<<"y">>)},
        s \in {None, Some(4), Some(6)},
        c \in {None, Some(<<"y">>)},
        g \in {None, Some(<<"y">>)},
        f \in {None, Some(<<"y">>)} }

InitDetect ==
    /\ recipes = {}
    /\ ingredients = {}
    /\ recipe_ingredients = {}
    /\ versions = {}
    /\ version_ingredients = {}
    /\ txn = [s \in Sessions |-> EmptyTxn]
    /\ pc = [s \in Sessions |-> "idle"]
    /\ args = [s \in Sessions |-> NoArgs]
    /\ clock = 0
    /\ nextIng = 1
    /\ ret = NoReturn
    /\ vprev = 0
    /\ vcur = 0
    /\ vtype = "none"
    /\ sheets = NoSync
    /\ pool = NoPool
    /\ conv = NoConv
    /\ detect \in { [NoDetect EXCEPT !.old_data = od, !.new_data = nd,
                                     !.old_ingredients = oi, !.new_ingredients = ni] :
                      od \in DetectOldData, nd \in DetectNewData,
                      oi \in DetectOldLists, ni \in DetectNewLists }
    /\ norm = NoNorm

NextDetect == DetectChanges

DetectSpec == InitDetect /\ [][NextDetect]_vars

\* One caller saving the name "b" with one ingredient, in either spelling,
\* into a small library (a plate "b", a batch "b", a plate "a b", the catalog
\* entry "s", or any part of these), and searching for the stored names.
RoundTripRows ==
    { SearchRow(-3, "chef1", "plate", <<"b">>),
      SearchRow(-2, "chef1", "batch", <<"b">>),
      SearchRow(-1, "chef1", "plate", <<"a", " ", "b">>) }

RoundTripCatalogs == { {}, { [id |-> 0, chef |-> "chef1", name |-> <<"s">>] } }

RoundTripLists == { << <<"s">> >>, << <<"S">> >> }

RoundTripQueries == { <<"b">>, <<"b", " ", "2">>, <<"b", " ", "3">> }

InitRoundTrip ==
    /\ recipes \in SUBSET RoundTripRows
    /\ ingredients \in RoundTripCatalogs
    /\ recipe_ingredients = {}
    /\ versions = {}
    /\ version_ingredients = {}
    /\ txn = [s \in Sessions |-> EmptyTxn]
    /\ pc = [s \in Sessions |-> "idle"]
    /\ args = [s \in Sessions |-> NoArgs]
    /\ clock = 0
    /\ nextIng = 1
    /\ ret = NoReturn
    /\ vprev = 0
    /\ vcur = 0
    /\ vtype = "none"
    /\ sheets = NoSync
    /\ pool = NoPool
    /\ conv = NoConv
    /\ detect = NoDetect
    /\ norm = NoNorm

NextRoundTrip ==
    \/ \E type \in Types, ings \in RoundTripLists :
           SaveBegin("s1", "chef1", type, <<"b">>, ings)
    \/ SaveSteps("s1")
    \/ \E query \in RoundTripQueries : Search("s1", "chef1", query)

RoundTripSpec == InitRoundTrip /\ [][NextRoundTrip]_vars

\* The normalizer applied once to a drawn argument: every table key and a few
\* units of no table, as written or with a capital first letter, with and
\* without a blank before and after; the empty and the blank argument.
UpperChar(c) ==
    CASE c = "a" -> "A"
      [] c = "b" -> "B"
      [] c = "s" -> "S"
      [] OTHER   -> c

Capitalized(s) == IF s = <<>> THEN s ELSE <<UpperChar(Head(s))>> \o Tail(s)

CustomUnits == { <<"s", "t", "a", "l", "k", "s">>, <<"k", "n", "o", "b">>, <<"g", "l", "u", "g">> }

NormPads == { <<>>, <<" ">> }

NormInputs ==
    { <<>>, <<" ">> }
    \cup { left \o word \o right :
             left \in NormPads, right \in NormPads,
             word \in { e[1] : e \in STANDARD_UNITS } \cup CustomUnits
                      \cup { Capitalized(e[1]) : e \in STANDARD_UNITS }
                      \cup { Capitalized(u) : u \in CustomUnits } }

InitNorm ==
    /\ recipes = {}
    /\ ingredients = {}
    /\ recipe_ingredients = {}
    /\ versions = {}
    /\ version_ingredients = {}
    /\ txn = [s \in Sessions |-> EmptyTxn]
    /\ pc = [s \in Sessions |-> "idle"]
    /\ args = [s \in Sessions |-> NoArgs]
    /\ clock = 0
    /\ nextIng = 1
    /\ ret = NoReturn
    /\ vprev = 0
    /\ vcur = 0
    /\ vtype = "none"
    /\ sheets = NoSync
    /\ pool = NoPool
    /\ conv = NoConv
    /\ detect = NoDetect
    /\ norm \in { [NoNorm EXCEPT !.unit = u] : u \in NormInputs }

NextNorm == NormalizeUnit

NormSpec == InitNorm /\ [][NextNorm]_vars

\* the version calculator applied repeatedly, from any one-decimal version
InitCalc ==
    /\ recipes = {}
    /\ ingredients = {}
    /\ recipe_ingredients = {}
    /\ versions = {}
    /\ version_ingredients = {}
    /\ txn = [s \in Sessions |-> EmptyTxn]
    /\ pc = [s \in Sessions |-> "idle"]
    /\ args = [s \in Sessions |-> NoArgs]
    /\ clock = 0
    /\ nextIng = 1
    /\ ret = NoReturn
    /\ vprev = 0
    /\ vcur \in InitialVersion..MaxVersionTenths
    /\ vtype = "none"
    /\ sheets = NoSync
    /\ pool = NoPool
    /\ conv = NoConv
    /\ detect = NoDetect
    /\ norm = NoNorm

NextCalc == \E change_type \in ChangeTypes : CalculateNext(change_type)

CalcSpec == InitCalc /\ [][NextCalc]_vars

(***************************************************************************)
(* Properties                                                              *)
(***************************************************************************)
Idle == \A s \in Sessions : pc[s] = "idle"

ActiveVersionsOf(recipe_id) == { v \in VersionsOf(recipe_id) : v.is_active }

\* C1: once every call has returned, each stored recipe has exactly one
\* version row with is_active = true, and that row carries the highest
\* version number of the recipe (it is the version created last).
C1_OneActiveVersion ==
    Idle =>
      \A r \in recipes :
        /\ Cardinality(ActiveVersionsOf(r.id)) = 1
        /\ \A a \in ActiveVersionsOf(r.id) : \A v \in VersionsOf(r.id) :
               v.version_number <= a.version_number

\* C2: no two stored recipes of one chef and one recipe type have names that
\* are equal case-insensitively.
C2_UniqueNames ==
    \A r1 \in recipes : \A r2 \in recipes :
        (r1.id # r2.id /\ r1.chef = r2.chef /\ r1.type = r2.type)
            => Lower(r1.name) # Lower(r2.name)

\* C3: the step on which update_recipe returns success adds exactly one
\* version row for the updated recipe; the new row is active, snapshots the
\* name and serves the recipe has after the update, and no other version of
\* the recipe stays active.
C3_UpdateCreatesVersion ==
    [][ (ret'.op = "update" /\ ret'.success) =>
          /\ Cardinality(versions' \ versions) = 1
          /\ \A v \in versions' \ versions :
                /\ v.recipe_id = ret'.recipe_id
                /\ v.is_active
                /\ \A r \in recipes' : r.id = v.recipe_id =>
                       (v.name = r.name /\ v.serves = r.serves)
                /\ \A o \in versions' : (o.recipe_id = v.recipe_id /\ o # v) => ~o.is_active
      ]_vars

\* lowercased names of the committed recipes of one chef and one type
UsedNames(chef, type) ==
    { Lower(r.name) : r \in { q \in recipes : q.chef = chef /\ q.type = type } }

IsFree(base, k, used) == Lower(Suffixed(base, k)) \notin used

\* the smallest k of the range lo..hi whose candidate name is free
SmallestFree(base, lo, hi, used) ==
    CHOOSE k \in lo..hi :
        IsFree(base, k, used) /\ \A j \in lo..(k - 1) : ~IsFree(base, j, used)

\* the row a running save has inserted
InsertedRow(s) == CHOOSE r \in txn[s].recipes : r.id = args[s].recipe_id

\* C4 (as claimed): a save of name N stores the recipe under N itself when no
\* recipe of that chef and type has that name case-insensitively, and otherwise
\* under N + " " + k for the smallest k >= 2 whose candidate is unused.
C4_StoredNameAsClaimed ==
    \A s \in Sessions :
        (pc[s] = "save_ingredients" /\ args[s].todo = args[s].ings) =>
            LET N    == args[s].name
                used == UsedNames(args[s].chef, args[s].type)
            IN  InsertedRow(s).name =
                    IF Lower(N) \in used
                    THEN Suffixed(N, SmallestFree(N, 2, Cardinality(used) + 2, used))
                    ELSE N

\* C4 (amended): the same with N first stripped of surrounding blanks and k
\* taken from 2..99 only; when all of these candidates are used the name is
\* N + " " + a Unix timestamp.
C4_StoredNameStripped ==
    \A s \in Sessions :
        (pc[s] = "save_ingredients" /\ args[s].todo = args[s].ings) =>
            LET N    == Strip(args[s].name)
                used == UsedNames(args[s].chef, args[s].type)
            IN  IF Lower(N) \notin used
                THEN InsertedRow(s).name = N
                ELSE IF \E k \in 2..(ProbeLimit - 1) : IsFree(N, k, used)
                THEN InsertedRow(s).name =
                         Suffixed(N, SmallestFree(N, 2, ProbeLimit - 1, used))
                ELSE \E t \in Timestamps : InsertedRow(s).name = Suffixed(N, t)

\* a save of " B" has been stored as "B 57": the name was stripped and given
\* the smallest free number
C4_Witness ==
    \E s \in Sessions :
        /\ pc[s] = "save_ingredients"
        /\ args[s].todo = args[s].ings
        /\ args[s].name = <<" ", "B">>
        /\ InsertedRow(s).name = <<"B", " ", "5", "7">>

\* C5: a search whose query equals, case-insensitively, the name of a recipe
\* of the chef reports exact_match and attaches the full details of a recipe
\* with exactly that name.
C5_ExactMatchAttached ==
    (/\ ret.op = "search"
     /\ \E r \in recipes : r.chef = ret.chef /\ Lower(r.name) = Lower(ret.query))
    => /\ ret.result.exact_match
       /\ \E r \in recipes : /\ r.id = ret.result.recipe
                             /\ r.chef = ret.chef
                             /\ Lower(r.name) = Lower(ret.query)

\* C6: each call of next_version_number returns a number strictly greater
\* than the current version it was given, for both change types.
C6_StrictlyIncreasing == vtype # "none" => vcur > vprev

\* a minor step taken from 1.9
C6_Witness == vtype = "minor" /\ vprev = 19 /\ vcur > vprev

\* C7: a minor step keeps the integer part and adds one to the digit after the
\* point; a major step returns the next integer with a zero digit.
C7_MinorKeepsIntegerPart ==
    /\ vtype = "minor" => IntPart(vcur) = IntPart(vprev)
    /\ vtype = "major" => vcur = (IntPart(vprev) + 1) * 10

\* C8: when the version step of a save has failed, nothing of the version is
\* left (neither pending nor committed), the recipe row and one link per
\* ingredient of the save are committed, and the save returns the id of the
\* committed recipe with success.
C8_VersionFailureKeepsRecipe ==
    /\ \A s \in Sessions :
         (pc[s] = "save_sync" /\ VersionsOf(args[s].recipe_id) = {}) =>
            /\ txn[s] = EmptyTxn
            /\ \E r \in recipes : r.id = args[s].recipe_id /\ r.name = args[s].unique_name
            /\ \A p \in 1..Len(args[s].ings) :
                 \E l \in recipe_ingredients :
                    /\ l.recipe_id = args[s].recipe_id
                    /\ l.pos = p
                    /\ \E i \in ingredients :
                          i.id = l.ingredient_id /\ Lower(i.name) = Lower(args[s].ings[p])
    /\ ret.op = "save" =>
            /\ ret.success
            /\ \E r \in recipes : r.id = ret.recipe_id /\ r.name = ret.name

\* a save whose version step has just failed and been rolled back
C8_Witness ==
    \E s \in Sessions :
        /\ pc[s] = "save_sync"
        /\ VersionsOf(args[s].recipe_id) = {}
        /\ args[s].ings # <<>>
        /\ \E r \in recipes : r.id = args[s].recipe_id

\* the save of session s has committed its recipe row and has not returned yet
SaveCommitted(s) == pc[s] \in {"save_version", "save_version_id", "save_sync"}

\* C9: the recipes committed by two saves that run at the same time, for the
\* same chef and type, have names that differ case-insensitively.
C9_ConcurrentSavesDistinctNames ==
    \A s \in Sessions : \A t \in Sessions \ {s} :
        (SaveCommitted(s) /\ SaveCommitted(t)) =>
            \A r1 \in recipes : \A r2 \in recipes :
                (/\ r1.id = args[s].recipe_id
                 /\ r2.id = args[t].recipe_id
                 /\ r1.chef = r2.chef
                 /\ r1.type = r2.type)
                => Lower(r1.name) # Lower(r2.name)

\* C10: the catalog never holds two entries of one chef whose names are equal
\* case-insensitively.
C10_CatalogNoDuplicates ==
    \A i1 \in ingredients : \A i2 \in ingredients :
        (i1.id # i2.id /\ i1.chef = i2.chef) => Lower(i1.name) # Lower(i2.name)

\* rows of one chef and type whose name equals the stripped query, ignoring case
EqualTo(chef, type, query) ==
    { r \in recipes : r.chef = chef /\ r.type = type
                        /\ Lower(r.name) = Lower(Strip(query)) }

\* rows of one chef and type whose name contains the stripped query, ignoring case
Containing(chef, type, query) ==
    { r \in recipes : r.chef = chef /\ r.type = type
                        /\ Contains(Lower(r.name), Lower(Strip(query))) }

IdsOf(rows) == { r.id : r \in rows }

\* the search answered from one tier with one recipe of the given rows
AnsweredFrom(res, exact, type, rows) ==
    /\ res.exact_match = exact
    /\ res.best_match = ~exact
    /\ res.recipe_type = type
    /\ res.total_found = 1
    /\ IF type = "plate"
       THEN /\ Len(res.plate_recipes) = 1 /\ res.plate_recipes[1] \in IdsOf(rows)
            /\ res.batch_recipes = <<>>
       ELSE /\ Len(res.batch_recipes) = 1 /\ res.batch_recipes[1] \in IdsOf(rows)
            /\ res.plate_recipes = <<>>

\* C11: a search answers from the first tier that hits, in the order exact
\* plate, exact batch, contains plate, contains batch, keyword: an exact batch
\* match wins over a substring plate match, a plate wins over a batch inside a
\* tier, and keyword results come only when no name equals or contains the query.
C11_TierOrder ==
    ret.op = "search" =>
        LET c == ret.chef
            q == ret.query
        IN  IF EqualTo(c, "plate", q) # {}
            THEN AnsweredFrom(ret.result, TRUE, "plate", EqualTo(c, "plate", q))
            ELSE IF EqualTo(c, "batch", q) # {}
            THEN AnsweredFrom(ret.result, TRUE, "batch", EqualTo(c, "batch", q))
            ELSE IF Containing(c, "plate", q) # {}
            THEN AnsweredFrom(ret.result, FALSE, "plate", Containing(c, "plate", q))
            ELSE IF Containing(c, "batch", q) # {}
            THEN AnsweredFrom(ret.result, FALSE, "batch", Containing(c, "batch", q))
            ELSE ~ret.result.exact_match /\ ~ret.result.best_match

\* a search answered with the exact batch match although a plate contains the query
C11_Witness ==
    /\ ret.op = "search"
    /\ EqualTo(ret.chef, "plate", ret.query) = {}
    /\ EqualTo(ret.chef, "batch", ret.query) # {}
    /\ Containing(ret.chef, "plate", ret.query) # {}
    /\ ret.result.exact_match
    /\ ret.result.recipe_type = "batch"

\* some stored recipe of the chef and type has the name, ignoring case
Stored(chef, type, name) ==
    \E r \in recipes : r.chef = chef /\ r.type = type /\ Lower(r.name) = Lower(name)

\* C12: an update_recipe or delete_recipe call for a (chef, name, type) that
\* matches no stored recipe case-insensitively returns success = false with
\* the message "Recipe '<name>' not found" and changes no stored row.
C12_NotFoundIsStructuredFailure ==
    [][ \A s \in Sessions :
          (/\ pc[s] = "idle"
           /\ ret'.session = s
           /\ ret'.op \in {"update", "delete"}
           /\ ~Stored(ret'.chef, ret'.type, ret'.name))
          => /\ ~ret'.success
             /\ ret'.message = <<"Recipe '">> \o ret'.name \o <<"' not found">>
             /\ UNCHANGED storeVars
      ]_vars

\* a delete has failed for a name that only another chef has stored
C12_Witness ==
    /\ ret.op = "delete"
    /\ ~ret.success
    /\ ret.message = <<"Recipe '", "b", "' not found">>
    /\ ~Stored(ret.chef, ret.type, ret.name)
    /\ \E r \in recipes : r.chef # ret.chef /\ r.type = ret.type
                            /\ Lower(r.name) = Lower(ret.name)

\* the call supplies a field that update_recipe writes for this recipe type
SuppliesField(type, new_name, new_description, new_serves) ==
    new_name # <<>> \/ new_description # "" \/ (type = "plate" /\ new_serves # 0)

\* C13: an update_recipe call on an existing recipe that supplies no updatable
\* field (every new value empty, or only serves for a batch recipe) returns
\* success = false with the message "No fields to update", changes no stored
\* row, and never goes on to the UPDATE statement.
C13_NoFieldsIsFailure ==
    [][ \A s \in Sessions :
          /\ (/\ pc[s] = "idle"
              /\ ret'.session = s
              /\ ret'.op = "update"
              /\ Stored(ret'.chef, ret'.type, ret'.name)
              /\ ~SuppliesField(ret'.type, ret'.new_name, ret'.new_description,
                                ret'.new_serves))
             => /\ ~ret'.success
                /\ ret'.message = <<"No fields to update">>
                /\ UNCHANGED storeVars
          /\ (pc[s] = "idle" /\ pc'[s] = "update_apply")
             => SuppliesField(args'[s].type, args'[s].new_name,
                              args'[s].new_description, args'[s].new_serves)
      ]_vars

\* an update of a batch recipe that supplied only serves has been refused
C13_Witness ==
    /\ ret.op = "update"
    /\ ~ret.success
    /\ ret.message = <<"No fields to update">>
    /\ ret.type = "batch"
    /\ ret.new_serves # 0
    /\ Stored(ret.chef, ret.type, ret.name)

\* the tracked metadata fields
TrackedFields == { MetadataFields[i] : i \in 1..Len(MetadataFields) }

\* the entries of a sequence, as a set
Elems(seq) == { seq[i] : i \in 1..Len(seq) }

\* lowercased names of an ingredient list
LowerNames(list) == { Lower(list[i].name) : i \in 1..Len(list) }

\* the entry of a list that counts for a lowercased name: the last one
LastNamed(list, k) ==
    list[CHOOSE i \in 1..Len(list) :
            Lower(list[i].name) = k /\ \A j \in (i + 1)..Len(list) : Lower(list[j].name) # k]

RemovedNames == LowerNames(detect.old_ingredients) \ LowerNames(detect.new_ingredients)

AddedNames == LowerNames(detect.new_ingredients) \ LowerNames(detect.old_ingredients)

RequantifiedNames ==
    { k \in LowerNames(detect.old_ingredients) \cap LowerNames(detect.new_ingredients) :
        LastNamed(detect.old_ingredients, k).quantity
            # LastNamed(detect.new_ingredients, k).quantity }

\* tracked fields whose new value is given and differs from the old one
SuppliedAndDifferent ==
    { f \in TrackedFields :
        detect.new_data[f] # None /\ detect.new_data[f] # detect.old_data[f] }

\* C14: change_type is "major" exactly when the recipe name changed, or more
\* than 3 fields changed in total (metadata fields plus removed, added and
\* re-quantified ingredients), or more than 2 ingredients were removed, or
\* more than 2 were added; otherwise it is "minor".
C14_MajorIffThresholds ==
    detect.called =>
        /\ detect.result.change_type \in {"major", "minor"}
        /\ detect.result.change_type = "major" <=>
              \/ "name" \in SuppliedAndDifferent
              \/ Cardinality(SuppliedAndDifferent) + Cardinality(RemovedNames)
                   + Cardinality(AddedNames) + Cardinality(RequantifiedNames) > 3
              \/ Cardinality(RemovedNames) > 2
              \/ Cardinality(AddedNames) > 2

\* C15: a tracked field whose new value is None or the empty string, or equal
\* to the old value, is not in fields_changed (no ingredient carrying the
\* field's name), and when no field has any other new value and the
\* ingredients are the same, change_type is "minor".
C15_EmptyValueNotRecorded ==
    detect.called =>
        LET unchanged == { f \in TrackedFields :
                             \/ detect.new_data[f] = None
                             \/ (f \notin NumericFields /\ detect.new_data[f] = Some(<<>>))
                             \/ detect.new_data[f] = detect.old_data[f] }
            ingredient_names == LowerNames(detect.old_ingredients)
                                   \cup LowerNames(detect.new_ingredients)
        IN  /\ \A f \in unchanged :
                  FieldKey(f) \notin ingredient_names
                      => FieldKey(f) \notin Elems(detect.result.fields_changed)
            /\ (/\ unchanged = TrackedFields
                /\ RemovedNames = {} /\ AddedNames = {} /\ RequantifiedNames = {})
               => detect.result.change_type = "minor"

\* the description of a re-quantified ingredient
RequantifiedText(k) ==
    <<"C", "h", "a", "n", "g", "e", "d", " ">> \o k \o <<" ", "f", "r", "o", "m", " ">>
      \o Str(LastNamed(detect.old_ingredients, k).quantity)
      \o LastNamed(detect.old_ingredients, k).unit \o <<" ", "t", "o", " ">>
      \o Str(LastNamed(detect.new_ingredients, k).quantity)
      \o LastNamed(detect.new_ingredients, k).unit

\* the descriptions the ingredient diff has to produce
IngredientTexts ==
    { <<"R", "e", "m", "o", "v", "e", "d", " ">> \o k : k \in RemovedNames }
    \cup { <<"A", "d", "d", "e", "d", " ">> \o k : k \in AddedNames }
    \cup { RequantifiedText(k) : k \in RequantifiedNames }

\* number of descriptions the metadata loop produced
MetadataTexts ==
    Cardinality(SuppliedAndDifferent \cap ({"name"} \cup NumericFields))

SearchAfterSave ==
    /\ ret.op = "save"
    /\ ret'.op = "search"
    /\ ret'.chef = ret.chef
    /\ ret'.query = ret.name

\* the recipe attached to the search result is the saved one, with the name
\* and serves of the save
ReturnsSavedRecipe ==
    /\ ret'.result.recipe = ret.recipe_id
    /\ ret'.result.recipe_type = ret.type
    /\ \E r \in recipes' :
          /\ r.id = ret'.result.recipe
          /\ r.name = ret.name
          /\ r.chef = ret.chef
          /\ r.serves = (IF ret.type = "plate" THEN SaveServes ELSE 0)

\* the ingredients attached to the search result, one per submitted ingredient
AttachedIngredients ==
    RecipeIngredients(recipe_ingredients', ingredients', ret'.result.recipe)

\* C17 (as claimed): searching for the exact stored name right after a save
\* returns the saved recipe with the submitted metadata and the submitted
\* ingredient names, whatever other recipes the chef has.
C17_RoundTripAsClaimed ==
    [][ SearchAfterSave =>
          /\ ReturnsSavedRecipe
          /\ AttachedIngredients =
                { [pos |-> p, name |-> ret.ings[p]] : p \in 1..Len(ret.ings) }
      ]_vars

\* C17 (amended): the same when the saved recipe is a plate, or the chef has no
\* plate recipe with the stored name (case-insensitively); the ingredient
\* names are those of the catalog, equal to the submitted ones up to case.
C17_RoundTripUnlessPlateShadows ==
    [][ (/\ SearchAfterSave
         /\ (ret.type = "plate" \/ ~Stored(ret.chef, "plate", ret.name)))
        => /\ ReturnsSavedRecipe
           /\ Cardinality(AttachedIngredients) = Len(ret.ings)
           /\ \A p \in 1..Len(ret.ings) :
                 \E a \in AttachedIngredients :
                     a.pos = p /\ Lower(a.name) = Lower(ret.ings[p])
      ]_vars

\* a search has returned the batch "b" just saved with ingredient "S", next to
\* an older plate "a b" and the catalog entry "s"
C17_Witness ==
    /\ ret.op = "search"
    /\ ret.query = <<"b">>
    /\ ret.result.recipe > 0
    /\ ret.result.recipe_type = "batch"
    /\ \E r \in recipes : r.type = "plate" /\ r.id < 0
    /\ RecipeIngredients(recipe_ingredients, ingredients, ret.result.recipe)
          = { [pos |-> 1, name |-> <<"s">>] }
    /\ ingredients = { [id |-> 0, chef |-> "chef1", name |-> <<"s">>] }

\* names of the recipes of a chef
RecipeNames(chef) == { r.name : r \in { q \in recipes : q.chef = chef } }

\* C18: when a search of the tool layer finds nothing and the chef has at
\* least one recipe, the result carries a sample of names of that chef's
\* recipes that is not empty and has at most 5 names.
C18_SampleOfAtMostFive ==
    (/\ ret.op \in {"search_recipes", "_execute_search_recipes"}
     /\ ~ret.result.exact_match /\ ~ret.result.best_match
     /\ ret.result.total_found = 0
     /\ RecipeNames(ret.chef) # {})
    => /\ ret.available # <<>>
       /\ Len(ret.available) <= 5
       /\ Elems(ret.available) \subseteq RecipeNames(ret.chef)

\* C19: a step that calls the spreadsheet mirror returns success with the id
\* of the recipe whether the mirror returns or raises, and the store already
\* holds the committed outcome: nothing of the session is pending, a saved or
\* updated recipe is stored under the returned name, a deleted one is gone,
\* and the mirror step of a save changes no stored row.
C19_MirrorFailureHarmless ==
    [][ sheets'.outcome # "none" =>
          /\ ret'.success
          /\ ret'.op = sheets'.op
          /\ ret'.recipe_id = sheets'.recipe_id
          /\ txn'[ret'.session] = EmptyTxn
          /\ sheets'.op = "save" =>
                /\ UNCHANGED storeVars
                /\ \E r \in recipes : r.id = sheets'.recipe_id /\ r.name = ret'.name
          /\ sheets'.op = "update" =>
                \E r \in recipes' : r.id = sheets'.recipe_id /\ r.name = ret'.name
          /\ sheets'.op = "delete" =>
                ~\E r \in recipes' : r.id = sheets'.recipe_id
      ]_vars

\* an update has returned success although the mirror raised
C19_Witness ==
    /\ sheets.outcome = "failed"
    /\ sheets.op = "update"
    /\ ret.success
    /\ \E r \in recipes : r.id = ret.recipe_id /\ r.name = ret.name

\* C20: normalize_unit returns the canonical form when the lowercased and
\* trimmed argument is a key of a unit table, and otherwise returns the
\* argument as it was given, with its case and its surrounding blanks.
C20_UnknownUnitUnchanged ==
    norm.called =>
        LET key == Strip(Lower(norm.unit))
        IN  IF \E e \in STANDARD_UNITS : e[1] = key
            THEN \E e \in STANDARD_UNITS : e[1] = key /\ norm.result = e[2]
            ELSE norm.result = norm.unit

\* C21: the name the resolver returns is used by no recipe of that chef and
\* type that the save can see, compared case-insensitively, whichever branch
\* returned it: the stripped name, a numbered candidate or the timestamp
\* fallback.
C21_ResolvedNameUnused ==
    \A s \in Sessions :
        pc[s] = "save_insert" =>
            ~NameExists(recipes \cup txn[s].recipes, args[s].chef, args[s].type,
                        args[s].unique_name)

\* C22: the step on which update_recipe returns success leaves every recipe
\* other than the targeted one as it was, adds and removes no recipe, keeps
\* the targeted recipe's owner, type and creation stamp, keeps each of its
\* fields whose argument was not supplied, and changes no other table.
C22_UpdateChangesOnlySuppliedFields ==
    [][ (ret'.op = "update" /\ ret'.success) =>
          LET a == args[ret'.session]
          IN  /\ \A r \in recipes : r.id # a.recipe_id => r \in recipes'
              /\ \A q \in recipes' : q.id # a.recipe_id => q \in recipes
              /\ \A r \in recipes : r.id = a.recipe_id =>
                    \E q \in recipes' :
                        /\ q.id = r.id /\ q.chef = r.chef /\ q.type = r.type
                        /\ q.created = r.created
                        /\ a.new_name = <<>> => q.name = r.name
                        /\ a.new_description = "" => q.description = r.description
                        /\ a.new_serves = 0 => q.serves = r.serves
              /\ Cardinality(recipes') = Cardinality(recipes)
              /\ UNCHANGED <<ingredients, recipe_ingredients, versions, version_ingredients>>
      ]_vars

\* an update that supplied only serves has returned success: the plate has
\* the new serves and its old name, next to another recipe
C22_Witness ==
    /\ ret.op = "update"
    /\ ret.success
    /\ \E r \in recipes :
          /\ r.id = ret.recipe_id /\ r.serves = 6 /\ r.name = <<"b">>
          /\ \E o \in recipes : o.id # r.id

FirstKeyword(id, query) ==
    LET kws == Keywords(Lower(Strip(query)))
    IN  CHOOSE k \in 1..Len(kws) :
            /\ ILike(RowById(recipes, id).name, kws[k])
            /\ \A j \in 1..(k - 1) : ~ILike(RowById(recipes, id).name, kws[j])

\* a result list of the keyword tier: recipes of the chef and the type that
\* match a keyword, none twice, in the order in which the loop over the
\* keywords first meets them (keyword by keyword, newest first within one)
FirstSeenOrder(list, chef, type, query) ==
    /\ \A i \in 1..Len(list) :
          \E r \in recipes :
              /\ r.id = list[i] /\ r.chef = chef /\ r.type = type
              /\ \E k \in 1..Len(Keywords(Lower(Strip(query)))) :
                     ILike(r.name, Keywords(Lower(Strip(query)))[k])
    /\ \A i \in 1..Len(list) : \A j \in 1..Len(list) : i < j =>
          /\ list[i] # list[j]
          /\ \/ FirstKeyword(list[i], query) < FirstKeyword(list[j], query)
             \/ /\ FirstKeyword(list[i], query) = FirstKeyword(list[j], query)
                /\ RowById(recipes, list[i]).created > RowById(recipes, list[j]).created

\* C24: a search answered by the keyword tier returns two lists that hold no
\* recipe twice and keep first-seen order over the keywords, a total_found
\* that is the sum of their lengths, and the full recipe exactly when
\* total_found is 1.
C24_KeywordTier ==
    (ret.op = "search" /\ ~ret.result.exact_match /\ ~ret.result.best_match) =>
        /\ FirstSeenOrder(ret.result.plate_recipes, ret.chef, "plate", ret.query)
        /\ FirstSeenOrder(ret.result.batch_recipes, ret.chef, "batch", ret.query)
        /\ ret.result.total_found
              = Len(ret.result.plate_recipes) + Len(ret.result.batch_recipes)
        /\ (ret.result.recipe # 0) <=> (ret.result.total_found = 1)

\* the keyword tier has returned three plates, one of which matches both
\* keywords and one only the second
C24_Witness ==
    /\ ret.op = "search"
    /\ ~ret.result.exact_match /\ ~ret.result.best_match
    /\ ret.result.plate_recipes = <<2, 1, 6>>
    /\ ret.result.total_found = 3 + Len(ret.result.batch_recipes)
    /\ ret.result.recipe = 0

\* the text the detector returns when it has no change to describe
MinorAdjustments == Summary(<<>>)

\* no diff classified "major" is summarised as "Minor adjustments"
MajorNeverMinorAdjustments ==
    (detect.called /\ detect.result.change_type = "major") =>
        detect.result.summary # MinorAdjustments

C26_SuccessMeansUpdated ==
    (ret.op = "update" /\ ret.success) =>
        \E r \in recipes : r.id = ret.recipe_id /\ r.name = ret.name

\* no search holds more than one connection of the pool
NoSearchHoldsTwo == \A p \in PoolPositions : pool.at[p] > 0 => ConnectionsHeld(p) <= 1

\* no search has ended with the pool exhausted
NoSearchFails == pool.at["failed"] = 0

\* C27: no search holds more than one connection of the pool at any time, and
\* none of as many concurrent searches as the pool has connections ends with
\* the pool exhausted.
C27_OneConnectionEach == NoSearchHoldsTwo /\ NoSearchFails

\* C28: a search whose query is empty or holds only blanks reports neither an
\* exact match nor a best match and attaches no recipe, whatever the chef has
\* stored.
C28_BlankQueryMatchesNothing ==
    (ret.op = "search" /\ Strip(ret.query) = <<>>) =>
        /\ ~ret.result.exact_match
        /\ ~ret.result.best_match
        /\ ret.result.recipe = 0

\* the chef who owns the recipe of a version
OwnerOfVersion(version_id) ==
    { r.chef : r \in { q \in recipes : \E v \in versions :
                                           v.id = version_id /\ v.recipe_id = q.id } }

AboutToCallModel ==
    \/ conv.pc = "call"
    \/ conv.pc = "tools" /\ conv.todo = <<>>

\* every tool call of an assistant message of the history is followed by a
\* tool message with its id
EveryToolCallAnswered(messages) ==
    \A i \in 1..Len(messages) :
        \A k \in 1..Len(messages[i].tool_calls) :
            \E j \in (i + 1)..Len(messages) :
                /\ messages[j].role = "tool"
                /\ messages[j].tool_call_id = messages[i].tool_calls[k].id

\* C30: whenever process_message is about to call the language model, every
\* tool call recorded in the history has its tool message, whatever tool
\* names and argument strings the model emitted.
C30_NoUnansweredToolCall ==
    AboutToCallModel => EveryToolCallAnswered(conv.messages)

====
